---------------------------- MODULE Spec2Model ----------------------------
(***************************************************************************)
(* CHIP-8 emulator (src/src/emulator.rs, src/src/emulator_ui.rs).          *)
(*                                                                         *)
(* Two threads share one lock-guarded record (InterThreadData):            *)
(*   - the emulation thread (Emulator::new, Emulator::start) owns the      *)
(*     machine state `internals`, the framebuffer `gbuf`, the key latch    *)
(*     `key_states` / `wfi_register` and the local copy `frozen` of the    *)
(*     pause flag, and runs the two clocked gates;                         *)
(*   - the observer thread (EmulatorUI::update, EmulatorInterface) starts  *)
(*     and kills the emulation thread, toggles `freeze` and reads the      *)
(*     published log and state copy.                                       *)
(*                                                                         *)
(* Representation.  The fixed arrays memory ([u8; 4096]) and gbuf          *)
(* ([u8; 2048]) are kept as the function from the indices holding a        *)
(* non-zero byte to that byte (every other index holds 0); Load and Store  *)
(* are the array read and write, and an index outside the array is an      *)
(* index-out-of-bounds panic, as the Rust bounds check makes it.  A trace  *)
(* line "{pc:04X}: {opcode:04X} - {description}" is the tuple of its       *)
(* three formatted parts; the description is its format string with the    *)
(* formatted arguments, so two lines are equal exactly when the strings    *)
(* the code compares are equal.                                            *)
(*                                                                         *)
(* Integer overflow: #![allow(arithmetic_overflow)] only silences a lint.  *)
(* A build with overflow checks (debug) panics on overflow, a build        *)
(* without them (release) wraps; `overflow_checks` is the build's choice.  *)
(***************************************************************************)
EXTENDS Integers, Sequences, FiniteSets, TLC

(* ------------------------------ sizes ---------------------------------- *)
MEM_SIZE == 4096
GBUF_SIZE == 2048
STACK_SIZE == 16
NUM_REGS == 16
NUM_KEYS == 16
LOG_CAPACITY == 100
PROGRAM_START == 512
OPCODE_FREQ == 500
RENDER_FREQ == 60
KEY_ESCAPE == 27
KEY_Q == 113
U8 == 256
U16 == 65536
\* usize::MAX (2^64 - 1) does not fit TLC's 32-bit integers; it is only ever
\* compared with array lengths, so the largest representable integer stands for it
USIZE_MAX == 2147483647

(* ------------------------------ bounds --------------------------------- *)
\* timer.ticks() advances by 0 or by TickStep milliseconds between two samples
TickStep == 8
\* or, when the host held the thread up, by LongStep milliseconds: several
\* periods of either gate
LongStep == 40

(* --------------------------- bit arithmetic ---------------------------- *)
RECURSIVE Pow2(_)
Pow2(n) == IF n = 0 THEN 1 ELSE 2 * Pow2(n - 1)

Bit(a, i) == (a \div Pow2(i)) % 2

RECURSIVE BitFold(_, _, _, _)
\* the bitwise combination of a and b over bits 0..n-1; op is "and", "or", "xor"
BitFold(op, a, b, n) ==
    IF n = 0 THEN 0
    ELSE LET x == Bit(a, n - 1)
             y == Bit(b, n - 1)
             r == CASE op = "and" -> x * y
                    [] op = "or"  -> IF x + y > 0 THEN 1 ELSE 0
                    [] op = "xor" -> (x + y) % 2
         IN  r * Pow2(n - 1) + BitFold(op, a, b, n - 1)

BitAnd(a, b) == BitFold("and", a, b, 16)
BitOr(a, b) == BitFold("or", a, b, 16)
BitXor(a, b) == BitFold("xor", a, b, 16)
Shr(a, n) == a \div Pow2(n)

(* ------------------------- formatting helpers -------------------------- *)
HexDigit(d) == <<"0","1","2","3","4","5","6","7","8","9","A","B","C","D","E","F">>[d + 1]

RECURSIVE HexPad(_, _)
\* {:0wX}: n in upper-case hex, left-padded with zeros to w digits
HexPad(n, w) ==
    IF w <= 1 /\ n < 16 THEN <<HexDigit(n)>>
    ELSE Append(HexPad(n \div 16, w - 1), HexDigit(n % 16))

(* ------------------------------ arrays --------------------------------- *)
\* a [u8; N] array as the function from its non-zero indices to their bytes
ZeroArray == <<>>

Load(arr, i) == IF i \in DOMAIN arr THEN arr[i] ELSE 0

Store(arr, i, v) ==
    IF v = 0 THEN [j \in (DOMAIN arr) \ {i} |-> arr[j]]
    ELSE [j \in (DOMAIN arr) \cup {i} |-> IF j = i THEN v ELSE arr[j]]

\* arr[base .. base + Len(bytes) - 1] <- bytes (clone_from_slice, or one
\* indexed store per byte); bytes is a sequence
StoreSlice(arr, base, bytes) ==
    LET range == base..(base + Len(bytes) - 1)
        dom == ((DOMAIN arr) \ range) \cup {j \in range : bytes[j - base + 1] # 0}
    IN  [j \in dom |-> IF j \in range THEN bytes[j - base + 1] ELSE arr[j]]

(* --------------------------- machine state ----------------------------- *)
\* impl Default for C8
C8_default ==
    [memory |-> ZeroArray,
     V |-> [i \in 0..(NUM_REGS - 1) |-> 0],
     I |-> 0,
     PC |-> PROGRAM_START,
     stack |-> [i \in 0..(STACK_SIZE - 1) |-> 0],
     SP |-> 0,
     delay_timer |-> 0,
     sound_timer |-> 0,
     endloop |-> FALSE]

fontset ==
    << 240, 144, 144, 144, 240,
        32,  96,  32,  32, 112,
       240,  16, 240, 128, 240,
       240,  16, 240,  16, 240,
       144, 144, 240,  16,  16,
       240, 128, 240,  16, 240,
       240, 128, 240, 144, 240,
       240,  16,  32,  64,  64,
       240, 144, 240, 144, 240,
       240, 144, 240,  16, 240,
       240, 144, 240, 144, 144,
       224, 144, 224, 144, 224,
       240, 128, 128, 128, 240,
       224, 144, 144, 144, 224,
       240, 128, 240, 128, 240,
       240, 128, 240, 128, 128 >>

\* UIStates::keymap_default: logical key i (0-based) -> host key code
keymap_default ==
    [i \in 0..(NUM_KEYS - 1) |->
        <<48, 49, 50, 51, 52, 53, 54, 55, 56, 57, 97, 98, 99, 100, 101, 102>>[i + 1]]

\* InterThreadData::new
InterThreadData_new ==
    [executed_instructions |-> <<>>,
     internal_state |-> C8_default,
     freeze |-> FALSE,
     keymap |-> keymap_default]

(* ---------------------------- program images --------------------------- *)
RECURSIVE Bytes(_)
\* the big-endian byte image of a sequence of 16-bit opcodes
Bytes(ops) ==
    IF ops = <<>> THEN <<>>
    ELSE <<ops[1] \div 256, ops[1] % 256>> \o Bytes(Tail(ops))

\* 6003 F015 F10A 1206: V0 = 3; delay_timer = V0; wait for a key into V1; loop
ProgKey == Bytes(<<24579, 61461, 61706, 4614>>)
\* 2200: a subroutine that calls itself (the 17th call overflows the stack)
ProgCall == Bytes(<<8704>>)
\* 2204 00EE 00EE: call 0x204, return to 0x202, return with an empty stack
ProgRet == Bytes(<<8708, 238, 238>>)

\* 6002 F015 F018 1206: delay_timer = sound_timer = 2, then loop
ProgTimers == Bytes(<<24578, 61461, 61464, 4614>>)

\* A000 D011 00E0 D011 1208: draw the top row of the glyph of 0 at (0, 0),
\* clear the screen, draw the row again, loop
ProgDrawClear == Bytes(<<40960, 53265, 224, 53265, 4616>>)

Programs == {ProgKey, ProgCall, ProgRet, ProgTimers, ProgDrawClear}

\* the opcode with top nibble f and nibbles x, y, n
Opc(f, x, y, n) == (f * 4096) + (x * 256) + (y * 16) + n

\* the jump to itself of the k-th instruction of a program (k from 0), which
\* ends a program
Halt(k) == Opc(1, 2, 0, 0) + (2 * k)

\* 1200: the single instruction jumps to itself
ProgSelfJump == Bytes(<<Opc(1, 2, 0, 0)>>)

\* 7001 8010 1200: V0 += 1; V0 = V1; jump back: three lines, for ever
ProgLoop == Bytes(<<Opc(7, 0, 0, 1), Opc(8, 0, 1, 0), Opc(1, 2, 0, 0)>>)

\* 1FFF: jump to 0xFFF, where the second byte of the fetch is past the memory
ProgFetchEnd == Bytes(<<Opc(1, 15, 15, 15)>>)
\* 60FF BFFF: jump to 0xFFF + V0, past the memory
ProgJumpPast == Bytes(<<Opc(6, 0, 15, 15), Opc(11, 15, 15, 15)>>)
\* AFFF D002: a sprite of two rows whose second row is past the memory
ProgSpriteEnd == Bytes(<<Opc(10, 15, 15, 15), Opc(13, 0, 0, 2)>>)
\* 607B AFFE F033 / AFFD F033 1206: BCD of 123 at I .. I + 2, past and within the memory
ProgBcdEnd == Bytes(<<Opc(6, 0, 7, 11), Opc(10, 15, 15, 14), Opc(15, 0, 3, 3)>>)
ProgBcdFits ==
    Bytes(<<Opc(6, 0, 7, 11), Opc(10, 15, 15, 13), Opc(15, 0, 3, 3), Halt(3)>>)
\* 6109 AFFF F155 / F165; AFFE F155 1206: registers V0..V1 at I .. I + 1
ProgStoreEnd == Bytes(<<Opc(6, 1, 0, 9), Opc(10, 15, 15, 15), Opc(15, 1, 5, 5)>>)
ProgLoadEnd == Bytes(<<Opc(6, 1, 0, 9), Opc(10, 15, 15, 15), Opc(15, 1, 6, 5)>>)
ProgStoreFits ==
    Bytes(<<Opc(6, 1, 0, 9), Opc(10, 15, 15, 14), Opc(15, 1, 5, 5), Halt(3)>>)
\* 6010 E09E / E0A1: the key index 16; 600F E09E 1204 1206: the key index 15
ProgKeyPressedEnd == Bytes(<<Opc(6, 0, 1, 0), Opc(14, 0, 9, 14)>>)
ProgKeyReleasedEnd == Bytes(<<Opc(6, 0, 1, 0), Opc(14, 0, 10, 1)>>)
ProgKeyFits == Bytes(<<Opc(6, 0, 0, 15), Opc(14, 0, 9, 14), Halt(2), Halt(3)>>)

BoundsPrograms ==
    {ProgFetchEnd, ProgJumpPast, ProgSpriteEnd, ProgBcdEnd, ProgBcdFits, ProgStoreEnd,
     ProgLoadEnd, ProgStoreFits, ProgKeyPressedEnd, ProgKeyReleasedEnd, ProgKeyFits}

\* 5011 1202 1204: an opcode of family 5 with a last nibble other than 0
ProgFive == Bytes(<<Opc(5, 0, 1, 1), Halt(1), Halt(2)>>)
\* 6001 9011 1204 1206: an opcode of family 9 with a last nibble other than 0
ProgNine == Bytes(<<Opc(6, 0, 0, 1), Opc(9, 0, 1, 1), Halt(2), Halt(3)>>)
\* 0123 8018 E000 F000 1208: opcodes no arm of the decoder matches
ProgNoArm ==
    Bytes(<<Opc(0, 1, 2, 3), Opc(8, 0, 1, 8), Opc(14, 0, 0, 0), Opc(15, 0, 0, 0), Halt(4)>>)

UnknownPrograms == {ProgFive, ProgNine, ProgNoArm}

\* 2204 1202 2208 00EE 00EE: call 0x204, which calls 0x208, which returns to
\* 0x206, which returns to 0x202, which loops
ProgNested ==
    Bytes(<<Opc(2, 2, 0, 4), Halt(1), Opc(2, 2, 0, 8), Opc(0, 0, 14, 14), Opc(0, 0, 14, 14)>>)

\* 6XFF 6Y01 8XY4 1206 (with X = Y the second load undoes the first)
ProgAdd(x, y) == Bytes(<<Opc(6, x, 15, 15), Opc(6, y, 0, 1), Opc(8, x, y, 4), Halt(3)>>)
\* 6X01 6Y02 8XY5 1206
ProgSub(x, y) == Bytes(<<Opc(6, x, 0, 1), Opc(6, y, 0, 2), Opc(8, x, y, 5), Halt(3)>>)

ArithmeticPrograms ==
    {ProgAdd(x, y) : x \in 0..(NUM_REGS - 1), y \in 0..(NUM_REGS - 1)}
        \cup {ProgSub(x, y) : x \in 0..(NUM_REGS - 1), y \in 0..(NUM_REGS - 1)}

\* the constants the skip programs load and compare
ByteSamples == {0, 1, 15, 16, 127, 128, 254, 255}
\* 6XRR 3XRR 1204 1206 and 6XRR 4XRR 1204 1206
ProgSkipEq(x, rr) ==
    Bytes(<<Opc(6, x, 0, 0) + rr, Opc(3, x, 0, 0) + rr, Halt(2), Halt(3)>>)
ProgSkipNe(x, rr) ==
    Bytes(<<Opc(6, x, 0, 0) + rr, Opc(4, x, 0, 0) + rr, Halt(2), Halt(3)>>)

SkipPrograms ==
    {ProgSkipEq(x, rr) : x \in 0..(NUM_REGS - 1), rr \in ByteSamples}
        \cup {ProgSkipNe(x, rr) : x \in 0..(NUM_REGS - 1), rr \in ByteSamples}

\* the horizontal and vertical coordinates the draw programs load
ColumnSamples == {0, 57, 63, 200, 255}
RowSamples == {0, 30, 31, 255}
\* 60sx 61sy A20C D01n D01n 120A, and the sprite rows FF 81 at 0x20C
ProgDraw(sx, sy, n) ==
    Bytes(<<Opc(6, 0, 0, 0) + sx, Opc(6, 1, 0, 0) + sy, Opc(10, 2, 0, 12),
            Opc(13, 0, 1, n), Opc(13, 0, 1, n), Halt(5), Opc(15, 15, 8, 1)>>)

DrawPrograms == {ProgDraw(sx, sy, n) : sx \in ColumnSamples, sy \in RowSamples, n \in {1, 2}}

\* the values whose decimal digits the BCD programs store
DecimalSamples == {0, 9, 10, 99, 100, 157, 200, 255}
\* the addresses they store them at: the fontset, free memory, the last three bytes
BcdAddresses == {0, 768, MEM_SIZE - 3}
\* 6Xvv Annn FX33 1206
ProgBcd(x, vv, nnn) ==
    Bytes(<<Opc(6, x, 0, 0) + vv, Opc(10, 0, 0, 0) + nnn, Opc(15, x, 3, 3), Halt(3)>>)

BcdPrograms ==
    {ProgBcd(x, vv, nnn) : x \in {0, 7, 15}, vv \in DecimalSamples, nnn \in BcdAddresses}

\* 600F E0A1 1204 1206: skip unless the key 15 is pressed
ProgKeyReleasedFits == Bytes(<<Opc(6, 0, 0, 15), Opc(14, 0, 10, 1), Halt(2), Halt(3)>>)
\* the images that read the keypad: host key events are delivered in their runs
KeyPrograms == {ProgKeyFits, ProgKeyReleasedFits}

\* 600a 610b f010 1206 1208, for f = 5 and f = 9
ProgRegSkip(f, a, b) ==
    Bytes(<<Opc(6, 0, 0, a), Opc(6, 1, 0, b), Opc(f, 0, 1, 0), Halt(3), Halt(4)>>)
\* 6004 B204 1204 1206 1208: jump to 0x204 + V0
ProgJumpV0 == Bytes(<<Opc(6, 0, 0, 4), Opc(11, 2, 0, 4), Halt(2), Halt(3), Halt(4)>>)

PcPrograms ==
    {ProgKeyReleasedFits, ProgJumpV0}
        \cup {ProgRegSkip(f, a, b) : f \in {5, 9}, a \in {0, 1}, b \in {0, 1}}

\* 60FF AFFF 61F2 F01E 71FF 3100 1206 120E: I = 0xFFF, then I += 0xFF 242
\* times; the 241st sum is 0x1000E
ProgAddToI ==
    Bytes(<<Opc(6, 0, 15, 15), Opc(10, 15, 15, 15), Opc(6, 1, 15, 2), Opc(15, 0, 1, 14),
            Opc(7, 1, 15, 15), Opc(3, 1, 0, 0), Halt(3), Halt(7)>>)

\* the addresses the register blocks are stored at: free memory, and the last
\* X + 1 bytes of the memory
BlockAddresses(x) == {768, MEM_SIZE - 1 - x}
\* 6011 6122 6233 6FFF Annn FX55 6000 6100 6F00 FX65 1214: store V0..VX at
\* nnn, overwrite V0, V1 and VF, load V0..VX back
ProgStoreLoad(x, nnn) ==
    Bytes(<<Opc(6, 0, 1, 1), Opc(6, 1, 2, 2), Opc(6, 2, 3, 3), Opc(6, 15, 15, 15),
            Opc(10, 0, 0, 0) + nnn, Opc(15, x, 5, 5), Opc(6, 0, 0, 0), Opc(6, 1, 0, 0),
            Opc(6, 15, 0, 0), Opc(15, x, 6, 5), Halt(10)>>)

StoreLoadPrograms ==
    UNION {{ProgStoreLoad(x, nnn) : nnn \in BlockAddresses(x)} : x \in {0, 1, 2, 15}}

\* A000 D011 01E0 1206: draw a row, then an opcode of family 0 that is not
\* 00E0 but has its low byte
ProgLooseClear == Bytes(<<Opc(10, 0, 0, 0), Opc(13, 0, 1, 1), Opc(0, 1, 14, 0), Halt(3)>>)
\* 2204 1202 01EE: call 0x204, where an opcode of family 0 that is not 00EE
\* but has its low byte
ProgLooseReturn == Bytes(<<Opc(2, 2, 0, 4), Halt(1), Opc(0, 1, 14, 14)>>)

LowBytePrograms == {ProgLooseClear, ProgLooseReturn}

\* the images run instruction by instruction under an idle observer
ExecPrograms ==
    {ProgSelfJump} \cup {ProgLoop} \cup BoundsPrograms \cup UnknownPrograms \cup {ProgNested} \cup ArithmeticPrograms \cup SkipPrograms \cup DrawPrograms \cup BcdPrograms \cup PcPrograms \cup {ProgAddToI} \cup StoreLoadPrograms \cup LowBytePrograms

\* Emulator::start, lines 151-179: the machine as the loop first sees it
LoadedMachine(image) ==
    [C8_default EXCEPT
        !.memory = StoreSlice(StoreSlice(ZeroArray, PROGRAM_START, image), 0, fontset)]

(* ------------------------------ publisher ------------------------------ *)
\* Emulator::keycode_to_index: the first index whose key code matches, or -1 (None)
keycode_to_index(keycode, km) ==
    IF \E i \in 0..(NUM_KEYS - 1) : km[i] = keycode
    THEN CHOOSE i \in 0..(NUM_KEYS - 1) :
            /\ km[i] = keycode
            /\ \A j \in 0..(i - 1) : km[j] # keycode
    ELSE -1

\* a log that gives up its newest entry, not its oldest, when it is full
PushBounded_evicts_newest(log, line) ==
    IF Len(log) >= LOG_CAPACITY
    THEN Append(SubSeq(log, 1, LOG_CAPACITY - 1), line)
    ELSE Append(log, line)

\* Vec::push followed by the capacity check of send_state
PushBounded(log, line) ==
    LET pushed == Append(log, line)
    IN  IF Len(pushed) > LOG_CAPACITY THEN Tail(pushed) ELSE pushed

\* a publisher that appends the line of every executed instruction
send_state_logs_every_line(locked, line, internal_state) ==
    IF internal_state.endloop /\ locked.executed_instructions = <<>>
    THEN [locked |-> locked, err |-> "unwrap on None"]
    ELSE [locked |-> [locked EXCEPT
                        !.executed_instructions = PushBounded(@, line),
                        !.internal_state = internal_state],
          err |-> "none"]

\* Emulator::send_state on the locked record; err is the panic message or "none"
send_state(locked, line, internal_state) ==
    IF internal_state.endloop /\ locked.executed_instructions = <<>>
    THEN [locked |-> locked, err |-> "unwrap on None"]
    ELSE IF internal_state.endloop
            /\ line = locked.executed_instructions[Len(locked.executed_instructions)]
    THEN [locked |-> locked, err |-> "none"]
    ELSE [locked |-> [locked EXCEPT
                        !.executed_instructions = PushBounded(@, line),
                        !.internal_state = internal_state],
          err |-> "none"]

(* ------------------------- decoder / executor -------------------------- *)
OOB == "index out of bounds"
SUB_OVERFLOW == "attempt to subtract with overflow"
ADD_OVERFLOW == "attempt to add with overflow"
UNWRAP_NONE == "called Option::unwrap() on a None value"

\* the outcome of one instruction: machine, framebuffer, wait register,
\* description, and the panic message ("none" when the instruction completed)
Done(c, g, w, desc) == [c |-> c, g |-> g, w |-> w, desc |-> desc, err |-> "none"]
Panics(c, g, w, msg) == [c |-> c, g |-> g, w |-> w, desc |-> <<>>, err |-> msg]

OpX(opcode) == (opcode \div 256) % 16
OpY(opcode) == (opcode \div 16) % 16
OpN(opcode) == opcode % 16
OpRR(opcode) == opcode % 256
OpNNN(opcode) == opcode % 4096

Max(a, b) == IF a >= b THEN a ELSE b

\* a 0x00EE that saturates at an empty stack instead of panicking
Op0_saturating(c, g, w, opcode, oc) ==
    CASE OpRR(opcode) = 224 -> Done(c, ZeroArray, w, <<"Clearing screen">>)
      [] OpRR(opcode) = 238 ->
            LET top == IF c.SP >= 1 THEN c.SP - 1 ELSE 0
            IN  Done([c EXCEPT !.SP = top, !.PC = c.stack[top]], g, w,
                     <<"Reuturning from subroutine to: 0x{:03X}", HexPad(c.stack[top], 3)>>)
      [] OTHER -> Done(c, g, w, <<"Unknown/unimplemented instruction">>)

\* lines 245-258: 0x00E0 clear screen, 0x00EE return, anything else no-op
Op0(c, g, w, opcode, oc) ==
    CASE OpRR(opcode) = 224 -> Done(c, ZeroArray, w, <<"Clearing screen">>)
      [] OpRR(opcode) = 238 ->
            LET top == IF c.SP >= 1 THEN c.SP - 1 ELSE USIZE_MAX
            IN  IF c.SP = 0 /\ oc THEN Panics(c, g, w, SUB_OVERFLOW)
                ELSE IF top >= STACK_SIZE THEN Panics(c, g, w, OOB)
                ELSE Done([c EXCEPT !.SP = top, !.PC = c.stack[top]], g, w,
                          <<"Reuturning from subroutine to: 0x{:03X}", HexPad(c.stack[top], 3)>>)
      [] OTHER -> Done(c, g, w, <<"Unknown/unimplemented instruction">>)

\* lines 259-269: 0x1NNN jump, with self-loop detection
Op1(c, g, w, opcode) ==
    LET nnn == OpNNN(opcode)
    IN  IF c.PC - 2 = nnn
        THEN Done([c EXCEPT !.endloop = TRUE, !.PC = nnn], g, w, <<"Endloop">>)
        ELSE Done([c EXCEPT !.PC = nnn], g, w,
                  <<"Jumping to location 0x{:03X}", HexPad(nnn, 3)>>)

\* a 0x2NNN that pushes its own address, not the address after it
Op2_pushes_own_address(c, g, w, opcode) ==
    LET nnn == OpNNN(opcode)
    IN  IF c.SP >= STACK_SIZE THEN Panics(c, g, w, OOB)
        ELSE Done([c EXCEPT !.stack[c.SP] = c.PC - 2, !.SP = c.SP + 1, !.PC = nnn], g, w,
                  <<"Jumping to subroutine at 0x{:03X}", HexPad(nnn, 3)>>)

\* a 0x2NNN without the bounds check on stack[SP]: the store past the end is
\* lost and SP goes on to 17
Op2_unchecked(c, g, w, opcode) ==
    LET nnn == OpNNN(opcode)
    IN  Done([c EXCEPT !.stack = IF c.SP < STACK_SIZE
                                 THEN [@ EXCEPT ![c.SP] = c.PC] ELSE @,
                       !.SP = c.SP + 1, !.PC = nnn], g, w,
             <<"Jumping to subroutine at 0x{:03X}", HexPad(nnn, 3)>>)

\* lines 270-276: 0x2NNN call
Op2(c, g, w, opcode) ==
    LET nnn == OpNNN(opcode)
    IN  IF c.SP >= STACK_SIZE THEN Panics(c, g, w, OOB)
        ELSE Done([c EXCEPT !.stack[c.SP] = c.PC, !.SP = c.SP + 1, !.PC = nnn], g, w,
                  <<"Jumping to subroutine at 0x{:03X}", HexPad(nnn, 3)>>)

\* lines 277-300 and 378-385: the conditional skips 3XRR, 4XRR, 5XY_, 9XY_
OpSkip(c, g, w, opcode) ==
    LET x == OpX(opcode)
        y == OpY(opcode)
        rr == OpRR(opcode)
        fam == opcode \div 4096
        cond == CASE fam = 3 -> c.V[x] = rr
                  [] fam = 4 -> c.V[x] # rr
                  [] fam = 5 -> c.V[x] = c.V[y]
                  [] fam = 9 -> c.V[x] # c.V[y]
        desc == CASE fam = 3 -> <<"Skipping next instruction if V{:X}(0x{:02X}) == 0x{:02X}",
                                  HexPad(x, 1), HexPad(c.V[x], 2), HexPad(rr, 2)>>
                  [] fam = 4 -> <<"Skipping next instruction if V{:X}(0x{:02X}) != 0x{:02X}",
                                  HexPad(x, 1), HexPad(c.V[x], 2), HexPad(rr, 2)>>
                  [] fam = 5 -> <<"Skipping next instruction if V{:X}(0x{:02X}) == V{:X}(0x{:02X})",
                                  HexPad(x, 1), HexPad(c.V[x], 2), HexPad(y, 1), HexPad(c.V[y], 2)>>
                  [] fam = 9 -> <<"Skipping next instruction if V{:X} != V{:X}",
                                  HexPad(x, 1), HexPad(y, 1)>>
    IN  Done([c EXCEPT !.PC = IF cond THEN c.PC + 2 ELSE c.PC], g, w, desc)

\* a 0x6XRR that loads only the low nibble of RR
Op67_loads_low_nibble(c, g, w, opcode) ==
    LET x == OpX(opcode)
        rr == OpRR(opcode)
    IN  IF opcode \div 4096 = 6
        THEN Done([c EXCEPT !.V[x] = rr % 16], g, w,
                  <<"Moving 0x{:02X} into V{:X}", HexPad(rr, 2), HexPad(x, 1)>>)
        ELSE Done([c EXCEPT !.V[x] = (c.V[x] + rr) % U8], g, w,
                  <<"Adding 0x{:02X} to V{:X}", HexPad(rr, 2), HexPad(x, 1)>>)

\* lines 301-312: 0x6XRR load constant, 0x7XRR add constant (wrapping_add)
Op67(c, g, w, opcode) ==
    LET x == OpX(opcode)
        rr == OpRR(opcode)
    IN  IF opcode \div 4096 = 6
        THEN Done([c EXCEPT !.V[x] = rr], g, w,
                  <<"Moving 0x{:02X} into V{:X}", HexPad(rr, 2), HexPad(x, 1)>>)
        ELSE Done([c EXCEPT !.V[x] = (c.V[x] + rr) % U8], g, w,
                  <<"Adding 0x{:02X} to V{:X}", HexPad(rr, 2), HexPad(x, 1)>>)

\* second statements whose sum saturates at 0xFF instead of wrapping
Op8Second_saturating(V1, x, y, n) ==
    CASE n = 0 -> [V1 EXCEPT ![x] = V1[y]]
      [] n \in {1, 2, 3} -> [V1 EXCEPT ![15] = 0]
      [] n = 4 -> [V1 EXCEPT ![x] = IF V1[x] + V1[y] >= U8 THEN U8 - 1 ELSE V1[x] + V1[y]]
      [] n = 5 -> [V1 EXCEPT ![x] = (V1[x] - V1[y] + U8) % U8]
      [] n = 6 -> [V1 EXCEPT ![x] = Shr(V1[x], 1)]
      [] n = 7 -> [V1 EXCEPT ![x] = (V1[y] - V1[x] + U8) % U8]
      [] n = 14 -> [V1 EXCEPT ![x] = (V1[x] * 2) % U8]
      [] OTHER -> V1

\* lines 313-377: V after the second statement of an 0x8XY_ arm, from V1, V
\* after its first statement
Op8Second(V1, x, y, n) ==
    CASE n = 0 -> [V1 EXCEPT ![x] = V1[y]]
      [] n \in {1, 2, 3} -> [V1 EXCEPT ![15] = 0]
      [] n = 4 -> [V1 EXCEPT ![x] = (V1[x] + V1[y]) % U8]
      [] n = 5 -> [V1 EXCEPT ![x] = (V1[x] - V1[y] + U8) % U8]
      [] n = 6 -> [V1 EXCEPT ![x] = Shr(V1[x], 1)]
      [] n = 7 -> [V1 EXCEPT ![x] = (V1[y] - V1[x] + U8) % U8]
      [] n = 14 -> [V1 EXCEPT ![x] = (V1[x] * 2) % U8]
      [] OTHER -> V1

\* lines 313-377: the register-to-register family; the flag is written first
\* and the result second, in the order of the statements
Op8(c, g, w, opcode) ==
    LET x == OpX(opcode)
        y == OpY(opcode)
        n == OpN(opcode)
        hx == HexPad(x, 1)
        hy == HexPad(y, 1)
        \* V after the first statement of the arm
        V1 == CASE n = 1 -> [c.V EXCEPT ![x] = BitOr(c.V[x], c.V[y])]
                [] n = 2 -> [c.V EXCEPT ![x] = BitAnd(c.V[x], c.V[y])]
                [] n = 3 -> [c.V EXCEPT ![x] = BitXor(c.V[x], c.V[y])]
                [] n = 4 -> [c.V EXCEPT ![15] = IF c.V[x] + c.V[y] > 255 THEN 1 ELSE 0]
                [] n = 5 -> [c.V EXCEPT ![15] = IF c.V[x] > c.V[y] THEN 1 ELSE 0]
                [] n = 6 -> [c.V EXCEPT ![15] = c.V[x] % 2]
                [] n = 7 -> [c.V EXCEPT ![15] = IF c.V[y] > c.V[x] THEN 1 ELSE 0]
                [] n = 14 -> [c.V EXCEPT ![15] = Shr(c.V[x], 7)]
                [] OTHER -> c.V
        desc == CASE n = 0 -> <<"Moving V{:X} into V{:X}", hy, hx>>
                  [] n = 1 -> <<"Adding V{:X}to V{:X} OR V{:X})", hx, hx, hy>>
                  [] n = 2 -> <<"Set V{:X} to V{:X} AND V{:X}", hx, hx, hy>>
                  [] n = 3 -> <<"Set V{:X} to V{:X} XOR V{:X}", hx, hx, hy>>
                  [] n = 4 -> <<"Add V{:X} to V{:X} and store carry in VF", hy, hx>>
                  [] n = 5 -> <<"Subtract V{:X} from V{:X} and store the borrow in VF", hy, hx>>
                  [] n = 6 -> <<"Shift V{:X} to the right least significant bit goes to VF", hx>>
                  [] n = 7 -> <<"Subtract V{:X} from V{:X} store the result to V{:X} and store the borrow in VF",
                                hx, hy, hx>>
                  [] n = 14 -> <<"Shift V{:X} to the left most significant bit goes to VF", hx>>
                  [] OTHER -> <<"Unknown/unimplemented instruction">>
    IN  Done([c EXCEPT !.V = Op8Second(V1, x, y, n)], g, w, desc)

\* lines 386-402: 0xANNN, 0xBNNN, 0xCXKK (rnd is the byte the generator returns)
OpABC(c, g, w, opcode, rnd) ==
    LET nnn == OpNNN(opcode)
        x == OpX(opcode)
        kk == OpRR(opcode)
        fam == opcode \div 4096
    IN  CASE fam = 10 -> Done([c EXCEPT !.I = nnn], g, w,
                              <<"Put 0x{:03X} into I", HexPad(nnn, 3)>>)
          [] fam = 11 -> Done([c EXCEPT !.PC = nnn + c.V[0]], g, w,
                              <<"Jump to I + 0x{:03X}", HexPad(nnn, 3)>>)
          [] fam = 12 -> Done([c EXCEPT !.V[x] = BitAnd(rnd, kk)], g, w,
                              <<"Set V{:X} to random number in [0,255] & 0x{:02X}",
                                HexPad(x, 1), HexPad(kk, 2)>>)

RECURSIVE DrawFrom_clipping(_, _, _, _, _, _, _, _)
\* loops that drop the cells past the right and the bottom edge
DrawFrom_clipping(k, n, memory, I, sx, sy, vf, g) ==
    IF k >= 8 * n THEN [vf |-> vf, g |-> g, err |-> "none"]
    ELSE LET i == k \div 8
             j == k % 8
         IN  IF I + i >= MEM_SIZE THEN [vf |-> vf, g |-> g, err |-> OOB]
             ELSE IF BitAnd(Load(memory, I + i), Shr(128, j)) > 0
                     /\ j + sx < 64 /\ i + sy < 32
             THEN LET idx == (j + sx) + ((i + sy) * 64)
                  IN  DrawFrom_clipping(k + 1, n, memory, I, sx, sy,
                                        Max(vf, Load(g, idx)),
                                        Store(g, idx, BitXor(Load(g, idx), 1)))
             ELSE DrawFrom_clipping(k + 1, n, memory, I, sx, sy, vf, g)

RECURSIVE DrawFrom_or(_, _, _, _, _, _, _, _)
\* loops that set the cells of the sprite instead of toggling them
DrawFrom_or(k, n, memory, I, sx, sy, vf, g) ==
    IF k >= 8 * n THEN [vf |-> vf, g |-> g, err |-> "none"]
    ELSE LET i == k \div 8
             j == k % 8
         IN  IF I + i >= MEM_SIZE THEN [vf |-> vf, g |-> g, err |-> OOB]
             ELSE IF BitAnd(Load(memory, I + i), Shr(128, j)) > 0
             THEN LET idx == ((j + sx) % 64) + (((i + sy) % 32) * 64)
                  IN  DrawFrom_or(k + 1, n, memory, I, sx, sy,
                                  Max(vf, Load(g, idx)), Store(g, idx, 1))
             ELSE DrawFrom_or(k + 1, n, memory, I, sx, sy, vf, g)

RECURSIVE DrawFrom(_, _, _, _, _, _, _, _)
\* lines 425-433: the two nested loops from bit k = 8 * row + column on;
\* vf is V[0xF] so far, g the framebuffer so far
DrawFrom(k, n, memory, I, sx, sy, vf, g) ==
    IF k >= 8 * n THEN [vf |-> vf, g |-> g, err |-> "none"]
    ELSE LET i == k \div 8
             j == k % 8
         IN  IF I + i >= MEM_SIZE THEN [vf |-> vf, g |-> g, err |-> OOB]
             ELSE IF BitAnd(Load(memory, I + i), Shr(128, j)) > 0
             THEN LET idx == ((j + sx) % 64) + (((i + sy) % 32) * 64)
                  IN  DrawFrom(k + 1, n, memory, I, sx, sy,
                               Max(vf, Load(g, idx)),
                               Store(g, idx, BitXor(Load(g, idx), 1)))
             ELSE DrawFrom(k + 1, n, memory, I, sx, sy, vf, g)

\* lines 414-434: the instruction's outcome from what the loops left
Drawn(c, g, w, drawn, desc) ==
    IF drawn.err # "none"
    THEN Panics([c EXCEPT !.V[15] = drawn.vf], drawn.g, w, drawn.err)
    ELSE Done([c EXCEPT !.V[15] = drawn.vf], drawn.g, w, desc)

\* lines 414-434: 0xDXYN draw sprite
OpD(c, g, w, opcode) ==
    LET x == OpX(opcode)
        y == OpY(opcode)
        n == OpN(opcode)
        sx == c.V[x]
        sy == c.V[y]
    IN  Drawn(c, g, w, DrawFrom(0, n, c.memory, c.I, sx, sy, 0, g),
              <<"Draw sprite at {}, {} with length {}", sx, sy, n>>)

\* key skips that wrap the key index into 0..15 instead of checking it
OpE_wraps_key(c, g, w, opcode, ks) ==
    LET x == OpX(opcode)
        lo == OpRR(opcode)
        key == c.V[x] % NUM_KEYS
    IN  CASE lo = 158 ->
                Done([c EXCEPT !.PC = IF ks[key] THEN c.PC + 2 ELSE c.PC], g, w,
                     <<"Skipping next instruction if key in V{:X} ({:X}) is pressed",
                       HexPad(x, 1), HexPad(c.V[x], 1)>>)
          [] lo = 161 ->
                Done([c EXCEPT !.PC = IF ~ks[key] THEN c.PC + 2 ELSE c.PC], g, w,
                     <<"Skipping next instruction if key in V{:X} ({:X}) is not pressed",
                       HexPad(x, 1), HexPad(c.V[x], 1)>>)
          [] OTHER -> Done(c, g, w, <<"Unknown/unimplemented instruction">>)

\* lines 435-453: 0xEX9E / 0xEXA1 skip on key state
OpE(c, g, w, opcode, ks) ==
    LET x == OpX(opcode)
        lo == OpRR(opcode)
    IN  CASE lo = 158 ->
                IF c.V[x] >= NUM_KEYS THEN Panics(c, g, w, OOB)
                ELSE Done([c EXCEPT !.PC = IF ks[c.V[x]] THEN c.PC + 2 ELSE c.PC], g, w,
                          <<"Skipping next instruction if key in V{:X} ({:X}) is pressed",
                            HexPad(x, 1), HexPad(c.V[x], 1)>>)
          [] lo = 161 ->
                IF c.V[x] >= NUM_KEYS THEN Panics(c, g, w, OOB)
                ELSE Done([c EXCEPT !.PC = IF ~ks[c.V[x]] THEN c.PC + 2 ELSE c.PC], g, w,
                          <<"Skipping next instruction if key in V{:X} ({:X}) is not pressed",
                            HexPad(x, 1), HexPad(c.V[x], 1)>>)
          [] OTHER -> Done(c, g, w, <<"Unknown/unimplemented instruction">>)

\* a load of V[0..X], without V[X]
LoadRegs_exclusive(V, memory, I, x) ==
    [k \in 0..(NUM_REGS - 1) |-> IF k < x THEN Load(memory, I + k) ELSE V[k]]

\* lines 503-505: V after V[0..=X].clone_from_slice(&memory[I..=I + X])
LoadRegs(V, memory, I, x) ==
    [k \in 0..(NUM_REGS - 1) |-> IF k <= x THEN Load(memory, I + k) ELSE V[k]]

\* three bytes that keep the tens without reducing them modulo 10
Bcd_tens_unreduced(vx) == <<vx \div 100, vx \div 10, vx % 10>>

\* lines 489-491: the three bytes 0xFX33 writes for V[X] = vx
Bcd(vx) == <<vx \div 100, (vx \div 10) % 10, vx % 10>>

\* lines 454-509: the 0xFX__ family
OpF(c, g, w, opcode, oc) ==
    LET x == OpX(opcode)
        lo == OpRR(opcode)
        hx == HexPad(x, 1)
        vx == c.V[x]
    IN  CASE lo = 7 -> Done([c EXCEPT !.V[x] = c.delay_timer], g, w,
                            <<"Putting value of delay timer into V{:X}", hx>>)
          [] lo = 10 -> Done(c, g, x,
                             <<"Waiting for keypress and storing result into V{:X}", hx>>)
          [] lo = 21 -> Done([c EXCEPT !.delay_timer = vx], g, w,
                             <<"Setting delay timer to the value of V{:X}", hx>>)
          [] lo = 24 -> Done([c EXCEPT !.sound_timer = vx], g, w,
                             <<"Setting sound timer to the value of V{:X}", hx>>)
          [] lo = 30 ->
                IF c.I + vx >= U16 /\ oc THEN Panics(c, g, w, ADD_OVERFLOW)
                ELSE Done([c EXCEPT !.I = (c.I + vx) % U16], g, w,
                          <<"Adding the value of V{:X} to I", hx>>)
          [] lo = 41 -> Done([c EXCEPT !.I = vx * 5], g, w,
                             <<"Setting I to location of the sprite of the digit {:X}", hx>>)
          [] lo = 51 ->
                IF c.I >= MEM_SIZE THEN Panics(c, g, w, OOB)
                ELSE IF c.I + 1 >= MEM_SIZE
                THEN Panics([c EXCEPT !.memory = StoreSlice(@, c.I, SubSeq(Bcd(vx), 1, 1))],
                            g, w, OOB)
                ELSE IF c.I + 2 >= MEM_SIZE
                THEN Panics([c EXCEPT !.memory = StoreSlice(@, c.I, SubSeq(Bcd(vx), 1, 2))],
                            g, w, OOB)
                ELSE Done([c EXCEPT !.memory = StoreSlice(@, c.I, Bcd(vx))],
                          g, w,
                          <<"Storing BCD representation of V{:X} into location I", hx>>)
          [] lo = 85 ->
                IF c.I + x >= MEM_SIZE THEN Panics(c, g, w, OOB)
                ELSE Done([c EXCEPT !.memory =
                              StoreSlice(@, c.I, [k \in 1..(x + 1) |-> c.V[k - 1]])],
                          g, w,
                          <<"Storing values of register [0, {:X}] into memory at I", hx>>)
          [] lo = 101 ->
                IF c.I + x >= MEM_SIZE THEN Panics(c, g, w, OOB)
                ELSE Done([c EXCEPT !.V = LoadRegs(c.V, c.memory, c.I, x)],
                          g, w,
                          <<"Loading values of register [0, {:X}] from address I", hx>>)
          [] OTHER -> Done(c, g, w, <<"Unknown/unimplemented instruction">>)

\* line 236: the big-endian fetch at PC (both index expressions are bounds-checked)
FetchOk(c) == c.PC < MEM_SIZE /\ c.PC + 1 < MEM_SIZE
Fetch(c) == Load(c.memory, c.PC) * 256 + Load(c.memory, c.PC + 1)

\* lines 244-511: the match on the top nibble, on the machine whose PC is
\* already advanced
Dispatch(c, g, w, opcode, ks, rnd, oc) ==
    LET fam == opcode \div 4096
    IN  CASE fam = 0 -> Op0(c, g, w, opcode, oc)
          [] fam = 1 -> Op1(c, g, w, opcode)
          [] fam = 2 -> Op2(c, g, w, opcode)
          [] fam \in {3, 4, 5, 9} -> OpSkip(c, g, w, opcode)
          [] fam \in {6, 7} -> Op67(c, g, w, opcode)
          [] fam = 8 -> Op8(c, g, w, opcode)
          [] fam \in {10, 11, 12} -> OpABC(c, g, w, opcode, rnd)
          [] fam = 13 -> OpD(c, g, w, opcode)
          [] fam = 14 -> OpE(c, g, w, opcode, ks)
          [] fam = 15 -> OpF(c, g, w, opcode, oc)

\* the trace line "{:04X}: {:04X} - {}" of line 515
TraceLine(old_pc, opcode, desc) == <<HexPad(old_pc, 4), HexPad(opcode, 4), desc>>

\* the outcome r of the instruction fetched at old_pc, with its trace line
WithLine(r, old_pc, opcode) == r @@ [line |-> TraceLine(old_pc, opcode, r.desc)]

\* lines 238-511: advance PC by 2, decode and execute the opcode
Decode(c, g, w, opcode, ks, rnd, oc) ==
    WithLine(Dispatch([c EXCEPT !.PC = c.PC + 2], g, w, opcode, ks, rnd, oc), c.PC, opcode)

\* lines 236-511: fetch, advance PC by 2, decode and execute one instruction
Execute(c, g, w, ks, rnd, oc) ==
    IF ~FetchOk(c) THEN Panics(c, g, w, OOB) @@ [line |-> <<>>]
    ELSE Decode(c, g, w, Fetch(c), ks, rnd, oc)

(* ------------------------- the two clocked gates ----------------------- *)
\* line 515 reached: the closure's result with what send_state s left in the
\* record
Published(r, s, fr) ==
    [locked |-> s.locked, c |-> r.c, g |-> r.g, w |-> r.w, frozen |-> fr, err |-> s.err]

\* lines 236-515 for the outcome r of the instruction: a panic leaves the
\* record as it was, a completed instruction is published
Publish(locked, r, fr) ==
    IF r.err # "none"
    THEN [locked |-> locked, c |-> r.c, g |-> r.g, w |-> r.w, frozen |-> fr, err |-> r.err]
    ELSE Published(r, send_state(locked, r.line, r.c), fr)

\* an instruction gate that ignores the wait register
execute_opcodes_no_wait(locked, c, g, w, ks, rnd, oc) ==
    IF locked.freeze
    THEN [locked |-> locked, c |-> c, g |-> g, w |-> w, frozen |-> TRUE, err |-> "none"]
    ELSE Publish(locked, Execute(c, g, w, ks, rnd, oc), FALSE)

\* an instruction gate that samples the pause flag but executes all the same
execute_opcodes_no_freeze(locked, c, g, w, ks, rnd, oc) ==
    IF w # -1
    THEN [locked |-> locked, c |-> c, g |-> g, w |-> w, frozen |-> locked.freeze,
          err |-> "none"]
    ELSE Publish(locked, Execute(c, g, w, ks, rnd, oc), locked.freeze)

\* lines 224-518: the closure execute_opcodes, run with the record locked.
\* frozen is the closure's write to the captured local of that name.
execute_opcodes(locked, c, g, w, ks, rnd, oc) ==
    IF locked.freeze
    THEN [locked |-> locked, c |-> c, g |-> g, w |-> w, frozen |-> TRUE, err |-> "none"]
    ELSE IF w # -1
    THEN [locked |-> locked, c |-> c, g |-> g, w |-> w, frozen |-> FALSE, err |-> "none"]
    ELSE Publish(locked, Execute(c, g, w, ks, rnd, oc), FALSE)

\* a handler whose decrement wraps from 0 to 255
execute_render_wrapping(c, fr) ==
    IF ~fr
    THEN [c EXCEPT !.delay_timer = (@ + U8 - 1) % U8,
                   !.sound_timer = (@ + U8 - 1) % U8]
    ELSE c

\* lines 521-525: the timer part of the closure execute_render
execute_render(c, fr) ==
    IF ~fr
    THEN [c EXCEPT !.delay_timer = @ - (IF @ > 0 THEN 1 ELSE 0),
                   !.sound_timer = @ - (IF @ > 0 THEN 1 ELSE 0)]
    ELSE c

\* lines 135-148: the gate of clocked!, on the milliseconds since it last fired
clocked(since, freq) == since >= 1000 \div freq

\* a KeyDown arm that resolves the wait whatever the sampled pause flag
key_down_ignores_frozen(c, ks, w, fr, keycode, km) ==
    LET key == keycode_to_index(keycode, km)
    IN  IF key = -1 THEN [c |-> c, ks |-> ks, w |-> w]
        ELSE IF w # -1
        THEN [c |-> [c EXCEPT !.V[w] = key], ks |-> [ks EXCEPT ![key] = TRUE], w |-> -1]
        ELSE [c |-> c, ks |-> [ks EXCEPT ![key] = TRUE], w |-> w]

\* lines 199-212: the KeyDown arm, for a key code that is not Escape or Q
key_down(c, ks, w, fr, keycode, km) ==
    LET key == keycode_to_index(keycode, km)
    IN  IF key = -1 THEN [c |-> c, ks |-> ks, w |-> w]
        ELSE IF w # -1 /\ ~fr
        THEN [c |-> [c EXCEPT !.V[w] = key], ks |-> [ks EXCEPT ![key] = TRUE], w |-> -1]
        ELSE [c |-> c, ks |-> [ks EXCEPT ![key] = TRUE], w |-> w]

\* lines 214-220: the KeyUp arm
key_up(ks, keycode, km) ==
    LET key == keycode_to_index(keycode, km)
    IN  IF key = -1 THEN ks ELSE [ks EXCEPT ![key] = FALSE]

(* ------------------------------- inputs -------------------------------- *)
\* host key codes the event pump delivers: '1', 'f', 'x' (not in the map), Escape
KeyCodes == {49, 102, 120, KEY_ESCAPE}
\* the milliseconds between two samples of timer.ticks()
TickSteps == {0, TickStep, LongStep}
\* bytes the random generator returns
RandomBytes == {0, 255}

(* ------------------------------- state --------------------------------- *)
VARIABLES
    program,            \* the bytes File::read puts at 0x200
    overflow_checks,    \* whether the build panics on integer overflow
    inter_thread,       \* Arc<Mutex<InterThreadData>>: the shared record
    lock,               \* who holds its mutex: "free", "emu", "ui"
    ethread,            \* where the emulation thread is
    panic_msg,          \* the panic that ended the emulation thread, or "none"
    internals,          \* Emulator::start locals
    gbuf,
    key_states,
    wfi_register,
    frozen,
    keymap,
    since_opcode,       \* current_tick - last_opcode_tick
    since_render,       \* current_tick - last_render_tick
    canvas,             \* the framebuffer last handed to render_graphics
    kill_channel,       \* messages in the kill channel of the current thread
    emulator_handle,    \* EmulatorInterface.emulator_handle is Some
    upc,                \* where the observer is in EmulatorUI::update
    should_start,       \* the local of that name in update
    ui_panic            \* the panic that ended the observer, or "none"

emu_vars == <<internals, gbuf, key_states, wfi_register, frozen, keymap,
              since_opcode, since_render, canvas>>
ui_vars == <<emulator_handle, upc, should_start, ui_panic>>
vars == <<program, overflow_checks, inter_thread, lock, ethread, panic_msg,
          emu_vars, kill_channel, ui_vars>>

\* the loop 'running of Emulator::start is being executed
Running == ethread \in {"kill_poll", "events", "opcode_gate", "execute", "render_gate"}
\* JoinHandle::is_finished
is_finished == ethread \in {"finished", "panicked"}
\* a status that takes every thread for ended
status_always_inactive == FALSE

\* EmulatorInterface::status
status == emulator_handle /\ ~is_finished

\* EmulatorUI as constructed, before any thread is started, for either build
Constructed ==
    /\ overflow_checks \in BOOLEAN
    /\ inter_thread = InterThreadData_new
    /\ lock = "free"
    /\ ethread = "none"
    /\ panic_msg = "none"
    /\ internals = C8_default
    /\ gbuf = ZeroArray
    /\ key_states = [k \in 0..(NUM_KEYS - 1) |-> FALSE]
    /\ wfi_register = -1
    /\ frozen = FALSE
    /\ keymap = [k \in 0..(NUM_KEYS - 1) |-> 0]
    /\ since_opcode = 0
    /\ since_render = 0
    /\ canvas = ZeroArray
    /\ kill_channel = 0
    /\ emulator_handle = FALSE
    /\ upc = "frame"
    /\ should_start = TRUE
    /\ ui_panic = "none"

Init == program \in Programs /\ Constructed

\* the same construction with a program of the instruction-level images
ExecInit == program \in ExecPrograms /\ Constructed

(* -------------------------- emulation thread --------------------------- *)
\* a panic of the observer, the main thread, ends the process and with it the
\* emulation thread
ProcessAlive == ui_panic = "none"

\* Emulator::new, line 98: the log is cleared under its own lock
EmuNewClear ==
    /\ ProcessAlive
    /\ ethread = "new_clear" /\ lock = "free"
    /\ inter_thread' = [inter_thread EXCEPT !.executed_instructions = <<>>]
    /\ ethread' = "new_reset"
    /\ UNCHANGED <<program, overflow_checks, lock, panic_msg, emu_vars, kill_channel, ui_vars>>

\* a reset that also clears the pause flag
EmuNewReset_clears_flag ==
    /\ ProcessAlive
    /\ ethread = "new_reset" /\ lock = "free"
    /\ inter_thread' = [inter_thread EXCEPT !.internal_state = C8_default, !.freeze = FALSE]
    /\ ethread' = "init"
    /\ UNCHANGED <<program, overflow_checks, lock, panic_msg, emu_vars, kill_channel, ui_vars>>

\* Emulator::new, line 99: the state copy is reset under a second lock
EmuNewReset ==
    /\ ProcessAlive
    /\ ethread = "new_reset" /\ lock = "free"
    /\ inter_thread' = [inter_thread EXCEPT !.internal_state = C8_default]
    /\ ethread' = "init"
    /\ UNCHANGED <<program, overflow_checks, lock, panic_msg, emu_vars, kill_channel, ui_vars>>

\* Emulator::start, lines 128-187: the locals of the loop
EmuInit ==
    /\ ProcessAlive
    /\ ethread = "init" /\ lock = "free"
    /\ keymap' = inter_thread.keymap
    /\ internals' = LoadedMachine(program)
    /\ gbuf' = ZeroArray
    /\ key_states' = [k \in 0..(NUM_KEYS - 1) |-> FALSE]
    /\ wfi_register' = -1
    /\ frozen' = FALSE
    /\ since_opcode' = 0
    /\ since_render' = 0
    /\ ethread' = "kill_poll"
    /\ UNCHANGED <<program, overflow_checks, inter_thread, lock, panic_msg, canvas,
                   kill_channel, ui_vars>>

\* lines 190-192: kill_receiver.try_recv()
EmuKillPoll ==
    /\ ProcessAlive
    /\ ethread = "kill_poll"
    /\ IF kill_channel > 0
       THEN ethread' = "finished" /\ kill_channel' = kill_channel - 1
       ELSE ethread' = "events" /\ UNCHANGED kill_channel
    /\ UNCHANGED <<program, overflow_checks, inter_thread, lock, panic_msg, emu_vars, ui_vars>>

\* lines 195-197: Event::Quit, or KeyDown of Escape or Q
EmuQuit ==
    /\ ProcessAlive
    /\ ethread = "events"
    /\ ethread' = "finished"
    /\ UNCHANGED <<program, overflow_checks, inter_thread, lock, panic_msg, emu_vars,
                   kill_channel, ui_vars>>

\* lines 199-212: Event::KeyDown
EmuKeyDown(keycode) ==
    /\ ProcessAlive
    /\ ethread = "events"
    /\ IF keycode \in {KEY_ESCAPE, KEY_Q}
       THEN /\ ethread' = "finished"
            /\ UNCHANGED <<internals, key_states, wfi_register>>
       ELSE LET r == key_down(internals, key_states, wfi_register, frozen, keycode, keymap)
            IN  /\ internals' = r.c
                /\ key_states' = r.ks
                /\ wfi_register' = r.w
                /\ UNCHANGED ethread
    /\ UNCHANGED <<program, overflow_checks, inter_thread, lock, panic_msg, gbuf, frozen,
                   keymap, since_opcode, since_render, canvas, kill_channel, ui_vars>>

\* lines 214-220: Event::KeyUp
EmuKeyUp(keycode) ==
    /\ ProcessAlive
    /\ ethread = "events"
    /\ key_states' = key_up(key_states, keycode, keymap)
    /\ UNCHANGED <<program, overflow_checks, inter_thread, lock, ethread, panic_msg,
                   internals, gbuf, wfi_register, frozen, keymap, since_opcode,
                   since_render, canvas, kill_channel, ui_vars>>

\* line 222: the event queue is drained and current_tick = timer.ticks()
EmuTick ==
    /\ ProcessAlive
    /\ ethread = "events"
    /\ \E d \in TickSteps :
          /\ since_opcode' = since_opcode + d
          /\ since_render' = since_render + d
    /\ ethread' = "opcode_gate"
    /\ UNCHANGED <<program, overflow_checks, inter_thread, lock, panic_msg, internals, gbuf,
                   key_states, wfi_register, frozen, keymap, canvas, kill_channel, ui_vars>>

\* line 519: the instruction gate is not due
EmuOpcodeSkip ==
    /\ ProcessAlive
    /\ ethread = "opcode_gate"
    /\ ~clocked(since_opcode, OPCODE_FREQ)
    /\ ethread' = "render_gate"
    /\ UNCHANGED <<program, overflow_checks, inter_thread, lock, panic_msg, emu_vars,
                   kill_channel, ui_vars>>

\* lines 519, 225: the instruction gate is due and the closure takes the lock
EmuOpcodeLock ==
    /\ ProcessAlive
    /\ ethread = "opcode_gate"
    /\ clocked(since_opcode, OPCODE_FREQ)
    /\ lock = "free"
    /\ lock' = "emu"
    /\ ethread' = "execute"
    /\ UNCHANGED <<program, overflow_checks, inter_thread, panic_msg, emu_vars,
                   kill_channel, ui_vars>>

\* a gate that moves last_opcode_tick on by one period, so that the rest of the
\* elapsed time is still owed to the next iterations
ClosureEnds_keeps_backlog(r) ==
    /\ inter_thread' = r.locked
    /\ internals' = r.c
    /\ gbuf' = r.g
    /\ wfi_register' = r.w
    /\ frozen' = r.frozen
    /\ panic_msg' = r.err
    /\ IF r.err = "none"
       THEN ethread' = "render_gate" /\ since_opcode' = since_opcode - (1000 \div OPCODE_FREQ)
       ELSE ethread' = "panicked" /\ UNCHANGED since_opcode

\* lines 139, 226-518: what the closure leaves in the locals and the record,
\* with last_opcode_tick = current_tick when it returns and the thread ended
\* when it unwinds
ClosureEnds(r) ==
    /\ inter_thread' = r.locked
    /\ internals' = r.c
    /\ gbuf' = r.g
    /\ wfi_register' = r.w
    /\ frozen' = r.frozen
    /\ panic_msg' = r.err
    /\ IF r.err = "none"
       THEN ethread' = "render_gate" /\ since_opcode' = 0
       ELSE ethread' = "panicked" /\ UNCHANGED since_opcode

\* a closure whose guard outlives it when the machine is paused
EmuExecuteOpcodes_keeps_guard_when_paused ==
    /\ ProcessAlive
    /\ ethread = "execute"
    /\ \E rnd \in RandomBytes :
          ClosureEnds(execute_opcodes(inter_thread, internals, gbuf, wfi_register,
                                      key_states, rnd, overflow_checks))
    /\ lock' = IF inter_thread.freeze THEN "emu" ELSE "free"
    /\ UNCHANGED <<program, overflow_checks, key_states, keymap, since_render, canvas,
                   kill_channel, ui_vars>>

\* lines 226-518, 139: the closure body; the guard is dropped when it returns
\* or unwinds
EmuExecuteOpcodes ==
    /\ ProcessAlive
    /\ ethread = "execute"
    /\ \E rnd \in RandomBytes :
          ClosureEnds(execute_opcodes(inter_thread, internals, gbuf, wfi_register,
                                      key_states, rnd, overflow_checks))
    /\ lock' = "free"
    /\ UNCHANGED <<program, overflow_checks, key_states, keymap, since_render, canvas,
                   kill_channel, ui_vars>>

\* line 529: the 60 Hz gate is not due
EmuRenderSkip ==
    /\ ProcessAlive
    /\ ethread = "render_gate"
    /\ ~clocked(since_render, RENDER_FREQ)
    /\ ethread' = "kill_poll"
    /\ UNCHANGED <<program, overflow_checks, inter_thread, lock, panic_msg, emu_vars,
                   kill_channel, ui_vars>>

\* a 60 Hz gate whose handler does nothing while the machine waits for a key
EmuExecuteRender_blocked_by_wait ==
    /\ ProcessAlive
    /\ ethread = "render_gate"
    /\ clocked(since_render, RENDER_FREQ)
    /\ internals' = IF wfi_register # -1 THEN internals ELSE execute_render(internals, frozen)
    /\ canvas' = IF wfi_register # -1 THEN canvas ELSE gbuf
    /\ since_render' = 0
    /\ ethread' = "kill_poll"
    /\ UNCHANGED <<program, overflow_checks, inter_thread, lock, panic_msg, gbuf, key_states,
                   wfi_register, frozen, keymap, since_opcode, kill_channel, ui_vars>>

\* lines 521-529: the 60 Hz gate fires: timers, render_graphics(&gbuf)
EmuExecuteRender ==
    /\ ProcessAlive
    /\ ethread = "render_gate"
    /\ clocked(since_render, RENDER_FREQ)
    /\ internals' = execute_render(internals, frozen)
    /\ canvas' = gbuf
    /\ since_render' = 0
    /\ ethread' = "kill_poll"
    /\ UNCHANGED <<program, overflow_checks, inter_thread, lock, panic_msg, gbuf, key_states,
                   wfi_register, frozen, keymap, since_opcode, kill_channel, ui_vars>>

(* ------------------------------ observer ------------------------------- *)
START_RUNNING == "Attempted to start emulator while already running"
KILL_NOT_RUNNING == "Attempted to kill emulator while it is not running"
START_JOIN_ERR == "start: join().unwrap() on Err"
KILL_SEND_ERR == "kill: send().unwrap() on Err"
KILL_JOIN_ERR == "kill: join().unwrap() on Err"

\* EmulatorInterface::join_thread once the thread has ended: what
\* handle.join().unwrap() does with the thread's result
join_thread(msg, where) == IF msg # "none" THEN where ELSE "none"

\* EmulatorInterface::start up to the spawn: the panic it ends in, or "none"
start_check(handle, running, msg) ==
    IF handle
    THEN IF running THEN START_RUNNING ELSE join_thread(msg, START_JOIN_ERR)
    ELSE "none"

\* EmulatorInterface::kill up to the join: the panic it ends in, or "none";
\* send fails when the receiver was dropped with its thread
kill_check(handle, ended) ==
    IF ~handle THEN KILL_NOT_RUNNING
    ELSE IF ended THEN KILL_SEND_ERR
    ELSE "none"

\* update, line 215: let should_start = !self.emulator_interface.status()
ObsStatus ==
    /\ upc = "frame"
    /\ should_start' = ~status
    /\ upc' = "label"
    /\ UNCHANGED <<program, overflow_checks, inter_thread, lock, ethread, panic_msg,
                   emu_vars, kill_channel, emulator_handle, ui_panic>>

\* update, lines 218-229: the status label; when the machine was found running
\* it reads the pause flag under the lock
ObsLabel ==
    /\ upc = "label"
    /\ should_start \/ lock = "free"
    /\ upc' = "button"
    /\ UNCHANGED <<program, overflow_checks, inter_thread, lock, ethread, panic_msg,
                   emu_vars, kill_channel, emulator_handle, should_start, ui_panic>>

\* update, line 235: the button is not clicked in this frame
ObsNoClick ==
    /\ upc = "button"
    /\ upc' = "checkbox"
    /\ UNCHANGED <<program, overflow_checks, inter_thread, lock, ethread, panic_msg,
                   emu_vars, kill_channel, emulator_handle, should_start, ui_panic>>

\* update, line 237: "Start Emulator" is clicked; EmulatorInterface::start
ObsStart ==
    /\ upc = "button" /\ should_start
    /\ LET p == start_check(emulator_handle, status, panic_msg)
       IN  IF p # "none"
           THEN /\ ui_panic' = p
                /\ upc' = "crashed"
                /\ emulator_handle' = (p = START_RUNNING)
                /\ UNCHANGED <<inter_thread, ethread, panic_msg, kill_channel>>
           ELSE /\ lock = "free"
                /\ inter_thread' = [inter_thread EXCEPT !.keymap = keymap_default]
                /\ kill_channel' = 0
                /\ emulator_handle' = TRUE
                /\ ethread' = "new_clear"
                /\ panic_msg' = "none"
                /\ upc' = "checkbox"
                /\ UNCHANGED ui_panic
    /\ UNCHANGED <<program, overflow_checks, lock, emu_vars, should_start>>

\* update, line 239: "Stop Emulator" is clicked; EmulatorInterface::kill up to
\* join_thread, whose mem::replace empties the handle before it blocks
ObsKill ==
    /\ upc = "button" /\ ~should_start
    /\ LET p == kill_check(emulator_handle, is_finished)
       IN  IF p # "none"
           THEN /\ ui_panic' = p
                /\ upc' = "crashed"
                /\ UNCHANGED <<kill_channel, emulator_handle>>
           ELSE /\ kill_channel' = kill_channel + 1
                /\ emulator_handle' = FALSE
                /\ upc' = "kill_join"
                /\ UNCHANGED ui_panic
    /\ UNCHANGED <<program, overflow_checks, inter_thread, lock, ethread, panic_msg,
                   emu_vars, should_start>>

\* join_thread, line 120: handle.join() returns when the thread has ended
ObsKillJoin ==
    /\ upc = "kill_join"
    /\ is_finished
    /\ LET p == join_thread(panic_msg, KILL_JOIN_ERR)
       IN  /\ ui_panic' = p
           /\ upc' = IF p # "none" THEN "crashed" ELSE "checkbox"
    /\ UNCHANGED <<program, overflow_checks, inter_thread, lock, ethread, panic_msg,
                   emu_vars, kill_channel, emulator_handle, should_start>>

\* update, line 244: the Freeze checkbox writes the flag under the lock
ObsCheckbox ==
    /\ upc = "checkbox" /\ lock = "free"
    /\ \E b \in BOOLEAN : inter_thread' = [inter_thread EXCEPT !.freeze = b]
    /\ upc' = "views"
    /\ UNCHANGED <<program, overflow_checks, lock, ethread, panic_msg, emu_vars,
                   kill_channel, emulator_handle, should_start, ui_panic>>

\* update, lines 268, 293, 373: a window takes the lock to read the log and
\* the state copy
ObsViews ==
    /\ upc = "views" /\ lock = "free"
    /\ lock' = "ui"
    /\ upc' = "viewing"
    /\ UNCHANGED <<program, overflow_checks, inter_thread, ethread, panic_msg,
                   emu_vars, kill_channel, emulator_handle, should_start, ui_panic>>

\* update, lines 268-392: the guard of the window is dropped at the end of its
\* block and the frame ends
ObsViewsEnd ==
    /\ upc = "viewing"
    /\ lock' = "free"
    /\ upc' = "frame"
    /\ UNCHANGED <<program, overflow_checks, inter_thread, ethread, panic_msg,
                   emu_vars, kill_channel, emulator_handle, should_start, ui_panic>>

(* ---------------------------- specification ---------------------------- *)
Next ==
    \/ EmuNewClear
    \/ EmuNewReset
    \/ EmuInit
    \/ EmuKillPoll
    \/ EmuQuit
    \/ \E keycode \in KeyCodes : EmuKeyDown(keycode)
    \/ \E keycode \in KeyCodes : EmuKeyUp(keycode)
    \/ EmuTick
    \/ EmuOpcodeSkip
    \/ EmuOpcodeLock
    \/ EmuExecuteOpcodes
    \/ EmuRenderSkip
    \/ EmuExecuteRender
    \/ ObsStatus
    \/ ObsLabel
    \/ ObsNoClick
    \/ ObsStart
    \/ ObsKill
    \/ ObsKillJoin
    \/ ObsCheckbox
    \/ ObsViews
    \/ ObsViewsEnd

Spec == Init /\ [][Next]_vars

\* the first frame of the observer: the thread has never been started
ObsFirstFrame == ~emulator_handle /\ ObsStatus

\* the host delivers key events to the images that read the keypad
ExecKeyDown(keycode) == program \in KeyPrograms /\ EmuKeyDown(keycode)
ExecKeyUp(keycode) == program \in KeyPrograms /\ EmuKeyUp(keycode)

\* one run of the emulation thread, started in the observer's first frame, with
\* no further click, and with host events only for the images that read the
\* keypad
ExecNext ==
    \/ ObsFirstFrame
    \/ ObsLabel
    \/ ObsStart
    \/ EmuNewClear
    \/ EmuNewReset
    \/ EmuInit
    \/ EmuKillPoll
    \/ \E keycode \in KeyCodes : ExecKeyDown(keycode)
    \/ \E keycode \in KeyCodes : ExecKeyUp(keycode)
    \/ EmuTick
    \/ EmuOpcodeSkip
    \/ EmuOpcodeLock
    \/ EmuExecuteOpcodes
    \/ EmuRenderSkip
    \/ EmuExecuteRender

ExecSpec == ExecInit /\ [][ExecNext]_vars

(* ------------------------------- claims -------------------------------- *)
\* this step is the body of the closure execute_opcodes (an instruction tick)
InstructionTick == ethread = "execute" /\ ethread' # "execute"

\* this step executes an instruction: an instruction tick with the pause flag
\* clear in a machine that is not waiting for a key
ExecutesInstruction ==
    InstructionTick /\ ~inter_thread.freeze /\ wfi_register = -1

\* a KeyDown event for a key code of the key map is handled in this step
MappedKeyDown(keycode) ==
    /\ keycode \notin {KEY_ESCAPE, KEY_Q}
    /\ keycode_to_index(keycode, keymap) # -1
    /\ EmuKeyDown(keycode)

\* C1: while the machine waits for a key (after 0xFX0A), no step of the
\* running emulation thread advances PC, executes or publishes anything, and
\* the wait is left only by a KeyDown event of a mapped key; no KeyUp event,
\* instruction tick or 60 Hz tick ends it.
C1_KeyWaitBlocks ==
    [][(Running /\ wfi_register # -1) =>
          /\ internals'.PC = internals.PC
          /\ internals'.memory = internals.memory
          /\ internals'.SP = internals.SP
          /\ internals'.I = internals.I
          /\ gbuf' = gbuf
          /\ inter_thread'.executed_instructions = inter_thread.executed_instructions
          /\ inter_thread'.internal_state = inter_thread.internal_state
          /\ (wfi_register' # wfi_register =>
                 \E keycode \in KeyCodes : MappedKeyDown(keycode))]_vars

\* C1 witness: an instruction tick arrives, with the pause flag clear, while
\* the machine waits for a key into V1 and the FX0A line is published
C1_Witness ==
    /\ ethread = "execute" /\ ~inter_thread.freeze
    /\ wfi_register = 1
    /\ Len(inter_thread.executed_instructions) = 3

\* C2 as stated: every mapped KeyDown during the wait writes the key and
\* clears the wait, whatever the pause flag
C2_Original ==
    [][\A keycode \in KeyCodes :
          (Running /\ wfi_register # -1 /\ MappedKeyDown(keycode)) =>
              /\ wfi_register' = -1
              /\ internals'.V[wfi_register] = keycode_to_index(keycode, keymap)]_vars

\* C2 amended: a mapped KeyDown during the wait always records the key as
\* pressed; it writes the key into V[X] and clears the wait when the copy of
\* the pause flag taken at the last instruction tick (frozen) is clear, and
\* leaves the machine and the wait unchanged when that copy is set.
C2_KeyPressResolvesUnlessFrozen ==
    [][\A keycode \in KeyCodes :
          (Running /\ wfi_register # -1 /\ MappedKeyDown(keycode)) =>
              LET key == keycode_to_index(keycode, keymap)
              IN  /\ key_states'[key]
                  /\ IF ~frozen
                     THEN /\ wfi_register' = -1
                          /\ internals' = [internals EXCEPT !.V[wfi_register] = key]
                     ELSE /\ wfi_register' = wfi_register
                          /\ internals' = internals]_vars

\* C2 witness: the wait into V1 was resolved by the key 'f' (logical key 15)
C2_Witness ==
    /\ ethread = "events"
    /\ wfi_register = -1
    /\ internals.V[1] = 15
    /\ key_states[15]

\* C3: an instruction tick that finds the pause flag set changes nothing
\* (machine state, framebuffer, wait register, log, published copy), and from
\* then until a tick finds the flag clear the machine stays exactly as it was,
\* so execution resumes from the same PC and state.
C3_PausedTickChangesNothing ==
    [][/\ (InstructionTick /\ inter_thread.freeze) =>
              /\ UNCHANGED <<internals, gbuf, wfi_register, inter_thread>>
              /\ ethread' = "render_gate"
       /\ (Running /\ frozen /\ ~(InstructionTick /\ ~inter_thread.freeze)) =>
              /\ UNCHANGED <<internals, gbuf, wfi_register>>
              /\ inter_thread'.executed_instructions = inter_thread.executed_instructions
              /\ inter_thread'.internal_state = inter_thread.internal_state]_vars

\* C3 witness: an instruction tick with the flag set, in a machine that has
\* executed instructions and has a running delay timer
C3_Witness ==
    /\ ethread = "execute" /\ inter_thread.freeze
    /\ Len(inter_thread.executed_instructions) >= 2
    /\ internals.delay_timer > 0

\* C4 as stated: no 60 Hz tick taken while the pause flag is set decrements a
\* timer
C4_NoDecrementWhilePaused ==
    [][(ethread = "render_gate" /\ ethread' # "render_gate" /\ inter_thread.freeze) =>
          /\ internals'.delay_timer = internals.delay_timer
          /\ internals'.sound_timer = internals.sound_timer]_vars

\* C5 as stated, in the part a state shows: a reader who finds the log empty
\* finds the state copy that was written with it, the initial state
C5_LogAndStateFromOneSection ==
    (lock = "free" /\ inter_thread.executed_instructions = <<>>) =>
        inter_thread.internal_state = C8_default

\* C6 as stated: after every executed instruction the published copy is the
\* machine as it is right after that instruction
C6_PublishedCopyIsCurrent ==
    [][(ExecutesInstruction /\ ethread' = "render_gate") =>
          inter_thread'.internal_state = internals']_vars

\* C7 as stated, in its safety part: a stop() whose signal was sent to a live
\* thread returns from its join
C7_StopJoins == ui_panic # KILL_JOIN_ERR

\* C8 as stated: after the emulation thread ended in a fatal runtime error the
\* observer never crashes
C8_ObserverSurvivesFatalError == (panic_msg # "none") => ui_panic = "none"

\* this step executes a 0x2NNN with a full stack
IsCallOnFullStack ==
    /\ ExecutesInstruction /\ FetchOk(internals)
    /\ Fetch(internals) \div 4096 = 2
    /\ internals.SP = STACK_SIZE

\* C9: executing 0x2NNN with SP = 16 ends the emulation thread in the
\* bounds-check panic; the stack keeps its 16 slots and their contents, SP
\* stays 16, nothing is published, SP is never above 16, and a panicked
\* thread's machine is never touched again.
C9_CallOnFullStackPanics ==
    [][/\ internals'.SP \in 0..STACK_SIZE
       /\ DOMAIN internals'.stack = 0..(STACK_SIZE - 1)
       /\ IsCallOnFullStack =>
              /\ ethread' = "panicked" /\ panic_msg' = OOB
              /\ internals'.stack = internals.stack
              /\ internals'.SP = internals.SP
              /\ inter_thread' = inter_thread
       /\ ethread = "panicked" => UNCHANGED <<internals, gbuf, wfi_register>>]_vars

\* C9 witness: the thread panicked on the 17th nested call
C9_Witness ==
    /\ ethread = "panicked" /\ panic_msg = OOB
    /\ internals.SP = STACK_SIZE
    /\ Len(inter_thread.executed_instructions) = STACK_SIZE

\* this step executes a 0x00EE
IsReturn ==
    /\ ExecutesInstruction /\ FetchOk(internals)
    /\ Fetch(internals) \div 4096 = 0
    /\ Fetch(internals) % 256 = 238

\* C10: executing 0x00EE with SP = 0 ends the emulation thread in a panic
\* (overflow check or bounds check) with SP still 0 and nothing published; SP
\* is never negative, and a 0x00EE that completes loads PC from
\* stack[SP - 1], a slot of the stack.
C10_ReturnOnEmptyStackPanics ==
    [][/\ internals'.SP >= 0
       /\ (IsReturn /\ internals.SP = 0) =>
              /\ ethread' = "panicked"
              /\ panic_msg' \in {SUB_OVERFLOW, OOB}
              /\ internals'.SP = 0
              /\ inter_thread' = inter_thread
       /\ (IsReturn /\ ethread' = "render_gate") =>
              /\ internals.SP - 1 \in 0..(STACK_SIZE - 1)
              /\ internals'.SP = internals.SP - 1
              /\ internals'.PC = internals.stack[internals.SP - 1]]_vars

\* C10 witness: the thread panicked on a return with an empty stack, after a
\* call and a return that completed
C10_Witness ==
    /\ ethread = "panicked" /\ internals.SP = 0
    /\ program = ProgRet
    /\ Len(inter_thread.executed_instructions) = 2

\* this step executes the opcode op
Executing(op) ==
    ExecutesInstruction /\ FetchOk(internals) /\ Fetch(internals) = op

\* the trace log the reader sees
Log == inter_thread.executed_instructions

\* C11 as stated: with the single instruction 1200 at 0x200, every instruction
\* tick leaves endloop set, exactly one entry in the trace log and the
\* emulation thread running.
C11_SelfJumpLogsOnce ==
    [][(program = ProgSelfJump /\ InstructionTick) =>
          /\ internals'.endloop
          /\ Len(inter_thread'.executed_instructions) = 1
          /\ ethread' = "render_gate"]_vars

\* the log after line is appended to log, the oldest entry leaving a full log
Appended(log, line) ==
    IF Len(log) < LOG_CAPACITY THEN Append(log, line) ELSE Append(Tail(log), line)

\* C12: the trace log never holds more than 100 entries; an instruction that
\* completes leaves the log as it was (a suppressed self-loop line) or appends
\* its own line as the newest entry, and appends it when endloop is clear; an
\* append to a full log removes exactly the oldest entry and keeps the order
\* of the rest.
C12_LogBoundedFifo ==
    [][/\ Len(Log') <= LOG_CAPACITY
       /\ (ExecutesInstruction /\ ethread' = "render_gate") =>
              /\ \/ Log' = Log /\ internals'.endloop
                 \/ /\ Log' # <<>>
                    /\ Log' = Appended(Log, Log'[Len(Log')])
                    /\ Log'[Len(Log')][1] = HexPad(internals.PC, 4)
                    /\ Log'[Len(Log')][2] = HexPad(Fetch(internals), 4)
              /\ ~internals'.endloop => Log' # Log \/ Len(Log) = LOG_CAPACITY]_vars

\* C12 witness: the log is full and its oldest entry is no longer the first
\* instruction of the program: an entry has been evicted
C12_Witness ==
    /\ program = ProgLoop
    /\ Len(Log) = LOG_CAPACITY
    /\ Log[1][1] # HexPad(PROGRAM_START, 4)

\* the instruction at c.PC reaches outside a fixed array: the fetch, the
\* sprite rows of DXYN, the three bytes of FX33, the X + 1 bytes of FX55 and
\* FX65, the key index of EX9E and EXA1
OutOfRange(c) ==
    \/ ~FetchOk(c)
    \/ LET op == Fetch(c)
           fam == op \div 4096
           x == (op \div 256) % 16
           lo == op % 256
       IN  \/ fam = 13 /\ op % 16 > 0 /\ c.I + (op % 16) - 1 >= MEM_SIZE
           \/ fam = 15 /\ lo = 51 /\ c.I + 2 >= MEM_SIZE
           \/ fam = 15 /\ lo \in {85, 101} /\ c.I + x >= MEM_SIZE
           \/ fam = 14 /\ lo \in {158, 161} /\ c.V[x] >= NUM_KEYS

\* C13: an instruction that reaches outside a fixed array ends the emulation
\* thread in the bounds-check panic and publishes nothing; no byte below I is
\* written (no address wraps), no register but V[0xF] changes, and the memory
\* never has a cell outside 0..0xFFF.
C13_OutOfRangePanics ==
    [][/\ DOMAIN internals'.memory \subseteq 0..(MEM_SIZE - 1)
       /\ (ExecutesInstruction /\ OutOfRange(internals)) =>
              /\ ethread' = "panicked" /\ panic_msg' = OOB
              /\ inter_thread' = inter_thread
              /\ \A a \in 0..(MEM_SIZE - 1) :
                     Load(internals'.memory, a) # Load(internals.memory, a) => a >= internals.I
              /\ \A r \in 0..(NUM_REGS - 2) : internals'.V[r] = internals.V[r]]_vars

\* C13 witness: the thread panicked on FX33 at I = 0xFFE, after two published
\* instructions
C13_Witness ==
    /\ program = ProgBcdEnd
    /\ ethread = "panicked" /\ panic_msg = OOB
    /\ internals.I = MEM_SIZE - 2
    /\ Len(Log) = 2

\* the opcode matches a pattern of the opcode table
InOpcodeTable(op) ==
    LET fam == op \div 4096
        n == op % 16
        lo == op % 256
    IN  \/ op \in {224, 238}
        \/ fam \in {1, 2, 3, 4, 6, 7, 10, 11, 12, 13}
        \/ fam \in {5, 9} /\ n = 0
        \/ fam = 8 /\ n \in (0..7) \cup {14}
        \/ fam = 14 /\ lo \in {158, 161}
        \/ fam = 15 /\ lo \in {7, 10, 21, 24, 30, 41, 51, 85, 101}

\* C14 as stated: executing an opcode outside the opcode table only advances
\* PC by 2, publishes one line with the unknown/unimplemented description and
\* lets the thread go on.
C14_UnknownOpcodeIsNoOp ==
    [][(ExecutesInstruction /\ FetchOk(internals)
            /\ ~InOpcodeTable(Fetch(internals))) =>
          /\ internals' = [internals EXCEPT !.PC = internals.PC + 2]
          /\ gbuf' = gbuf
          /\ wfi_register' = wfi_register
          /\ ethread' = "render_gate"
          /\ Log' = Appended(Log, TraceLine(internals.PC, Fetch(internals),
                                            <<"Unknown/unimplemented instruction">>))]_vars

\* the last published line is that of a 0x2NNN: the instruction executed
\* before this one was a call
AfterCall == Log # <<>> /\ Log[Len(Log)][2][1] = "2"

\* C15: a 0x2NNN at address A with SP < 16 pushes A + 2, adds 1 to SP and
\* jumps to NNN; a 0x00EE executed as the next instruction after the 0x2NNN at
\* A (the line of that call is the newest of the log) leaves PC = A + 2 and
\* takes the 1 from SP again.
C15_CallThenReturn ==
    [][/\ (ExecutesInstruction /\ FetchOk(internals)
              /\ Fetch(internals) \div 4096 = 2 /\ internals.SP < STACK_SIZE) =>
              /\ internals'.SP = internals.SP + 1
              /\ internals'.stack = [internals.stack EXCEPT ![internals.SP] = internals.PC + 2]
              /\ internals'.PC = Fetch(internals) % 4096
       /\ (IsReturn /\ AfterCall) =>
              /\ ethread' = "render_gate"
              /\ HexPad(internals'.PC - 2, 4) = Log[Len(Log)][1]
              /\ internals'.SP = internals.SP - 1]_vars

\* C15 witness: the call at 0x204 (SP = 1) and the return at 0x208 have been
\* executed: PC = 0x206 and SP = 1 again
C15_Witness ==
    /\ program = ProgNested
    /\ Len(Log) = 3
    /\ Log[2][1] = HexPad(PROGRAM_START + 4, 4)
    /\ internals.PC = PROGRAM_START + 6
    /\ internals.SP = 1

\* this step executes an 0x8XY_ with last nibble n on V[X] = vx and V[Y] = vy
Executing8(n, vx, vy) ==
    /\ ExecutesInstruction /\ FetchOk(internals)
    /\ Fetch(internals) \div 4096 = 8
    /\ Fetch(internals) % 16 = n
    /\ internals.V[OpX(Fetch(internals))] = vx
    /\ internals.V[OpY(Fetch(internals))] = vy

\* C16 as stated: 0x8XY4 on V[X] = 0xFF and V[Y] = 0x01 leaves V[0xF] = 1 and
\* V[X] = 0x00, for all X and Y, 0xF included.
C16_Original ==
    [][Executing8(4, 255, 1) =>
          /\ internals'.V[15] = 1
          /\ internals'.V[OpX(Fetch(internals))] = 0]_vars

\* C16 amended: 0x8XY4 on V[X] = 0xFF and V[Y] = 0x01 leaves V[0xF] = 1 and
\* V[X] = 0x00 for X in 0..14 and any Y, 0xF included; for X = 0xF the
\* register is both flag and sum and is left at 0x02, the carry plus V[Y].
C16_AddCarryBelowF ==
    [][Executing8(4, 255, 1) =>
          IF OpX(Fetch(internals)) # 15
          THEN /\ internals'.V[15] = 1
               /\ internals'.V[OpX(Fetch(internals))] = 0
          ELSE internals'.V[15] = 2]_vars

\* C16 witness: 81F4 has been executed on V1 = 0xFF and VF = 0x01
C16_Witness ==
    /\ program = ProgAdd(1, 15)
    /\ Len(Log) = 3
    /\ internals.V[1] = 0
    /\ internals.V[15] = 1

\* C17 as stated: 0x8XY5 on V[X] = 0x01 and V[Y] = 0x02 leaves V[0xF] = 0 and
\* V[X] = 0xFF, for all X and Y, 0xF included.
C17_SubBorrow ==
    [][Executing8(5, 1, 2) =>
          /\ internals'.V[15] = 0
          /\ internals'.V[OpX(Fetch(internals))] = 255]_vars

\* the instruction executed before this one, at the address just before, was
\* the 0x6XRR with the X and RR of the opcode at PC
AfterLoadOfSame ==
    /\ Log # <<>>
    /\ Log[Len(Log)][1] = HexPad(internals.PC - 2, 4)
    /\ Log[Len(Log)][2] = HexPad(Opc(6, 0, 0, 0) + (Fetch(internals) % 4096), 4)

\* C18: 0x6XRR leaves V[X] = RR; a 0x3XRR executed right after the 0x6XRR
\* before it leaves PC 4 past itself, a 0x4XRR executed right after the 0x6XRR
\* before it leaves PC 2 past itself.
C18_LoadThenSkip ==
    [][/\ (ExecutesInstruction /\ FetchOk(internals) /\ Fetch(internals) \div 4096 = 6) =>
              internals'.V[OpX(Fetch(internals))] = OpRR(Fetch(internals))
       /\ (ExecutesInstruction /\ FetchOk(internals) /\ AfterLoadOfSame) =>
              /\ Fetch(internals) \div 4096 = 3 => internals'.PC = internals.PC + 4
              /\ Fetch(internals) \div 4096 = 4 => internals'.PC = internals.PC + 2]_vars

\* C18 witness: 6FFF 3FFF has skipped 0x204, and 6FFF 4FFF has not
C18_Witness ==
    /\ Len(Log) = 2
    /\ \/ program = ProgSkipEq(15, 255) /\ internals.PC = PROGRAM_START + 6
       \/ program = ProgSkipNe(15, 255) /\ internals.PC = PROGRAM_START + 4

\* this step executes a 0xDXYN whose rows all lie in the memory
Draws ==
    /\ ExecutesInstruction /\ FetchOk(internals)
    /\ Fetch(internals) \div 4096 = 13
    /\ internals.I + (Fetch(internals) % 16) <= MEM_SIZE

\* the cells of the sprite the 0xDXYN at c.PC draws: for the set bit at column
\* col and row row, the cell ((V[X] + col) mod 64, (V[Y] + row) mod 32), cell
\* (x, y) being entry x + 64 * y of the framebuffer
SpriteCells(c) ==
    LET op == Fetch(c)
        bits == {rc \in (0..((op % 16) - 1)) \X (0..7) :
                    (Load(c.memory, c.I + rc[1]) \div Pow2(7 - rc[2])) % 2 = 1}
    IN  {((c.V[OpX(op)] + rc[2]) % 64) + (((c.V[OpY(op)] + rc[1]) % 32) * 64) : rc \in bits}

\* the instruction executed before this one, at the address just before, was
\* the same 0xDXYN with the same coordinates
AfterSameDraw ==
    /\ Log # <<>>
    /\ Log[Len(Log)][1] = HexPad(internals.PC - 2, 4)
    /\ Log[Len(Log)][2] = HexPad(Fetch(internals), 4)
    /\ Log[Len(Log)][3] = <<"Draw sprite at {}, {} with length {}",
                            internals.V[OpX(Fetch(internals))],
                            internals.V[OpY(Fetch(internals))], Fetch(internals) % 16>>

\* C19: a 0xDXYN of a sprite with a set bit whose cells are all clear sets
\* exactly those cells and leaves V[0xF] = 0; the same 0xDXYN executed next,
\* finding them as the first draw left them, clears exactly those cells and
\* leaves V[0xF] = 1; no other cell changes in either draw.
C19_DrawTwiceClears ==
    [][(Draws /\ SpriteCells(internals) # {}) =>
          /\ (\A idx \in SpriteCells(internals) : Load(gbuf, idx) = 0) =>
                 /\ internals'.V[15] = 0
                 /\ \A idx \in 0..(GBUF_SIZE - 1) :
                        Load(gbuf', idx) =
                            IF idx \in SpriteCells(internals) THEN 1 ELSE Load(gbuf, idx)
          /\ (AfterSameDraw /\ internals.V[15] = 0
                 /\ \A idx \in SpriteCells(internals) : Load(gbuf, idx) = 1) =>
                 /\ internals'.V[15] = 1
                 /\ \A idx \in 0..(GBUF_SIZE - 1) :
                        Load(gbuf', idx) =
                            IF idx \in SpriteCells(internals) THEN 0 ELSE Load(gbuf, idx)]_vars

\* C19 witness: the sprite FF 81 has been drawn twice at (57, 30); the
\* framebuffer is clear again and V[0xF] = 1
C19_Witness ==
    /\ program = ProgDraw(57, 30, 2)
    /\ Len(Log) = 5
    /\ gbuf = ZeroArray
    /\ internals.V[15] = 1

\* C20: a 0xDXYN toggles exactly the cells ((V[X] + col) mod 64,
\* (V[Y] + row) mod 32) of the set bits of its rows and no other cell, and
\* the framebuffer never has a cell outside 0..2047.
C20_DrawWraps ==
    [][/\ DOMAIN gbuf' \subseteq 0..(GBUF_SIZE - 1)
       /\ Draws =>
              \A idx \in 0..(GBUF_SIZE - 1) :
                 Load(gbuf', idx) =
                     IF idx \in SpriteCells(internals)
                     THEN 1 - Load(gbuf, idx) ELSE Load(gbuf, idx)]_vars

\* C20 witness: FF 81 drawn once at (63, 31): row 31 holds columns 63 and
\* 0..6, row 0 holds columns 63 and 6, and nothing else is set
C20_Witness ==
    /\ program = ProgDraw(63, 31, 2)
    /\ Len(Log) = 4
    /\ DOMAIN gbuf = {(31 * 64) + col : col \in (0..6) \cup {63}} \cup {63, 6}

\* this step executes an opcode of the family 0xFX__ with low byte lo
ExecutingF(lo) ==
    /\ ExecutesInstruction /\ FetchOk(internals)
    /\ Fetch(internals) \div 4096 = 15
    /\ Fetch(internals) % 256 = lo

\* h, t, o are the hundreds, tens and ones decimal digits of v
DecimalDigits(v, h, t, o) ==
    /\ {h, t, o} \subseteq 0..9
    /\ (100 * h) + (10 * t) + o = v

\* C21: 0xFX33 with I + 2 <= 0xFFF stores the hundreds, tens and ones decimal
\* digits of V[X] at memory[I], memory[I + 1], memory[I + 2] and changes no
\* other memory byte, no register, not I, and only PC (by 2) besides.
C21_BcdStoresDigits ==
    [][(ExecutingF(51) /\ internals.I + 2 < MEM_SIZE) =>
          /\ DecimalDigits(internals.V[OpX(Fetch(internals))],
                           Load(internals'.memory, internals.I),
                           Load(internals'.memory, internals.I + 1),
                           Load(internals'.memory, internals.I + 2))
          /\ \A a \in (0..(MEM_SIZE - 1)) \ (internals.I..(internals.I + 2)) :
                 Load(internals'.memory, a) = Load(internals.memory, a)
          /\ [internals' EXCEPT !.memory = internals.memory] =
                 [internals EXCEPT !.PC = internals.PC + 2]
          /\ ethread' = "render_gate"]_vars

\* C21 witness: F733 has stored 1, 5, 7 for V7 = 157 in the last three bytes
\* of the memory
C21_Witness ==
    /\ program = ProgBcd(7, 157, MEM_SIZE - 3)
    /\ Len(Log) = 3
    /\ Load(internals.memory, MEM_SIZE - 3) = 1
    /\ Load(internals.memory, MEM_SIZE - 2) = 5
    /\ Load(internals.memory, MEM_SIZE - 1) = 7

\* this step leaves the 60 Hz gate
RenderGateStep == ethread = "render_gate" /\ ethread' # "render_gate"

\* the 60 Hz gate is due: 1000 / 60 ms or more since it last fired
RenderDue == clocked(since_render, RENDER_FREQ)

\* the timer t after one decrement toward 0
Decremented(t) == IF t > 0 THEN t - 1 ELSE 0

\* C22: while the machine waits for a key, a 60 Hz gate that is due always
\* fires: it hands the framebuffer to the renderer, restarts its period and,
\* when the pause flag was clear at the last instruction tick, moves
\* delay_timer and sound_timer one step toward 0; the wait is not ended by it.
C22_KeyWaitKeepsRenderGate ==
    [][(RenderGateStep /\ RenderDue /\ wfi_register # -1) =>
          /\ canvas' = gbuf
          /\ since_render' = 0
          /\ ethread' = "kill_poll"
          /\ wfi_register' = wfi_register
          /\ ~frozen =>
                 /\ internals'.delay_timer = Decremented(internals.delay_timer)
                 /\ internals'.sound_timer = Decremented(internals.sound_timer)]_vars

\* C22 witness: during the wait into V1, with the sampled pause flag clear,
\* the delay timer set to 3 just before the wait has run down to 0
C22_Witness ==
    /\ program = ProgKey
    /\ wfi_register = 1 /\ ~frozen
    /\ ethread = "kill_poll"
    /\ internals.delay_timer = 0

\* this step samples the clock: it ends the event polling of one iteration of
\* the loop and reaches the instruction gate
SamplesClock == ethread = "events" /\ ethread' = "opcode_gate"

\* C23: in one iteration of the loop (from one sample of the clock to the
\* next) the instruction gate runs at most once, and only when it is due, and
\* executes at most one instruction; the 60 Hz gate runs at most once, and
\* only when it is due; a gate that has fired starts its period anew at the
\* sampled time, whatever the time elapsed, so that nothing is owed to later
\* iterations; PC and the log change in no other step of the running thread.
C23_GatesFireOncePerIteration ==
    [][/\ (ethread' = "opcode_gate" /\ ethread # "opcode_gate") => SamplesClock
       /\ (ethread' = "execute" /\ ethread # "execute") =>
              ethread = "opcode_gate" /\ clocked(since_opcode, OPCODE_FREQ)
       /\ (ethread' = "render_gate" /\ ethread # "render_gate") =>
              ethread \in {"opcode_gate", "execute"}
       /\ InstructionTick =>
              /\ ethread' \in {"render_gate", "panicked"}
              /\ Len(Log') <= Len(Log) + 1
              /\ internals'.PC \in {internals.PC, internals.PC + 2, internals.PC + 4}
                     \/ Fetch(internals) \div 4096 \in {0, 1, 2, 11}
              /\ ethread' = "render_gate" => since_opcode' = 0
       /\ (Running /\ ~InstructionTick) =>
              internals'.PC = internals.PC /\ Log' = Log
       /\ RenderGateStep =>
              /\ ethread' = "kill_poll"
              /\ IF RenderDue
                 THEN since_render' = 0 /\ canvas' = gbuf
                 ELSE UNCHANGED <<since_render, canvas, internals>>
       /\ (Running /\ ~RenderGateStep /\ ~InstructionTick) =>
              /\ internals'.delay_timer = internals.delay_timer
              /\ internals'.sound_timer = internals.sound_timer
              /\ canvas' = canvas]_vars

\* C23 witness: the first sample of the clock found LongStep milliseconds
\* elapsed, twenty periods of the instruction gate and two of the 60 Hz gate;
\* one instruction has been executed and the 60 Hz gate is reached
C23_Witness ==
    /\ ethread = "render_gate"
    /\ since_opcode = 0
    /\ since_render >= 2 * (1000 \div RENDER_FREQ)
    /\ Len(Log) = 1
    /\ internals.PC = PROGRAM_START + 2

\* the skip condition of the instruction op of the opcode table holds in the
\* machine c with the keys ks
SkipHolds(op, c, ks) ==
    LET fam == op \div 4096
        vx == c.V[OpX(op)]
        vy == c.V[OpY(op)]
    IN  \/ fam = 3 /\ vx = op % 256
        \/ fam = 4 /\ vx # op % 256
        \/ fam = 5 /\ op % 16 = 0 /\ vx = vy
        \/ fam = 9 /\ op % 16 = 0 /\ vx # vy
        \/ fam = 14 /\ op % 256 = 158 /\ vx < NUM_KEYS /\ ks[vx]
        \/ fam = 14 /\ op % 256 = 161 /\ vx < NUM_KEYS /\ ~ks[vx]

\* PC after the instruction op fetched at old in the machine c is pc
PcAfter(op, c, ks, old, pc) ==
    LET fam == op \div 4096
    IN  CASE op = 238 -> pc = c.stack[c.SP - 1]
          [] fam \in {1, 2} -> pc = op % 4096
          [] fam = 11 -> pc = (op % 4096) + c.V[0]
          [] InOpcodeTable(op) -> pc = IF SkipHolds(op, c, ks) THEN old + 4 ELSE old + 2
          [] OTHER -> pc = old + 2

\* the instruction of this step ends in a panic of its own (the panic of the
\* publisher comes after the instruction)
InstructionFails == panic_msg' \in {OOB, SUB_OVERFLOW, ADD_OVERFLOW}

\* C24 as stated: every executed instruction first advances PC by 2, so that
\* an instruction that fails leaves PC = old PC + 2; an instruction that is
\* not a jump, call or return leaves old PC + 2 when no skip is taken (an
\* opcode outside the opcode table has no skip condition) and old PC + 4 when
\* its skip condition holds; 1NNN, 2NNN, BNNN and 00EE leave NNN, NNN,
\* NNN + V[0] and the popped address, and 2NNN pushes old PC + 2.
C24_PcAdvance ==
    [][(ExecutesInstruction /\ FetchOk(internals)) =>
          /\ InstructionFails => internals'.PC = internals.PC + 2
          /\ ~InstructionFails =>
                 /\ PcAfter(Fetch(internals), internals, key_states, internals.PC,
                            internals'.PC)
                 /\ Fetch(internals) \div 4096 = 2 =>
                        /\ internals'.stack[internals.SP] = internals.PC + 2
                        /\ internals'.SP = internals.SP + 1]_vars

\* the 60 Hz gate fires in this step
RenderTick == RenderGateStep /\ RenderDue

\* C25 as stated: every 60 Hz tick decrements each timer by exactly 1 when it
\* is greater than 0 and leaves it at 0 otherwise.
C25_Original ==
    [][RenderTick =>
          /\ internals'.delay_timer = Decremented(internals.delay_timer)
          /\ internals'.sound_timer = Decremented(internals.sound_timer)]_vars

\* C25 amended: a 60 Hz tick taken with the sampled pause flag clear
\* decrements each timer by exactly 1 when it is greater than 0 and leaves it
\* at 0 otherwise; one taken with it set leaves both timers as they are; a
\* timer stays within 0..255 and never leaves 0 but by FX15 / FX18, which write
\* V[X]; in every other step of the running thread a timer does not increase.
C25_TimersCountDown ==
    [][/\ RenderTick =>
              /\ internals'.delay_timer =
                     IF frozen THEN internals.delay_timer
                     ELSE Decremented(internals.delay_timer)
              /\ internals'.sound_timer =
                     IF frozen THEN internals.sound_timer
                     ELSE Decremented(internals.sound_timer)
       /\ internals'.delay_timer \in 0..(U8 - 1)
       /\ internals'.sound_timer \in 0..(U8 - 1)
       /\ (ExecutingF(21) /\ ~InstructionFails) =>
              internals'.delay_timer = internals.V[OpX(Fetch(internals))]
       /\ (ExecutingF(24) /\ ~InstructionFails) =>
              internals'.sound_timer = internals.V[OpX(Fetch(internals))]
       /\ (Running /\ ~ExecutingF(21)) =>
              internals'.delay_timer <= internals.delay_timer
       /\ (Running /\ ~ExecutingF(24)) =>
              internals'.sound_timer <= internals.sound_timer
       /\ (Running /\ ~RenderTick) =>
              /\ ExecutingF(21) \/ internals'.delay_timer = internals.delay_timer
              /\ ExecutingF(24) \/ internals'.sound_timer = internals.sound_timer]_vars

\* C25 witness: both timers were set to 2 and decremented once by a 60 Hz
\* tick; the next 60 Hz tick is due with the sampled pause flag set
C25_Witness ==
    /\ program = ProgTimers
    /\ ethread = "render_gate" /\ RenderDue
    /\ frozen
    /\ internals.delay_timer = 1
    /\ internals.sound_timer = 1

\* C26 as stated: every framebuffer cell is 0 or 1 (a cell that is not 0 is 1) and there
\* are 2048 of them; 0x00E0 leaves all of them 0; a step of the running thread
\* that changes the framebuffer executes 0x00E0 or a 0xDXYN: no other
\* instruction, no key event, no 60 Hz tick and no write of the pause flag
\* changes a cell.
C26_FramebufferFrame ==
    [][/\ DOMAIN gbuf' \subseteq 0..(GBUF_SIZE - 1)
       /\ \A idx \in DOMAIN gbuf' : Load(gbuf', idx) = 1
       /\ Executing(224) => gbuf' = ZeroArray
       /\ (Running /\ gbuf' # gbuf) =>
              /\ ExecutesInstruction /\ FetchOk(internals)
              /\ Fetch(internals) = 224 \/ Fetch(internals) \div 4096 = 13]_vars

\* C27 as stated: 0xFX1E always sets I to (I + V[X]) mod 2^16 and the thread
\* goes on, also when the sum exceeds 0xFFFF.
C27_AddToIWraps ==
    [][ExecutingF(30) =>
          /\ internals'.I = (internals.I + internals.V[OpX(Fetch(internals))]) % U16
          /\ ethread' = "render_gate"]_vars

\* the block instruction of this step has its X + 1 bytes inside the memory
BlockFits == internals.I + OpX(Fetch(internals)) < MEM_SIZE

\* C28: with I + X <= 0xFFF, 0xFX55 copies V[0..=X] to memory[I..=I + X] and
\* changes no other byte, no register and not I; 0xFX65 copies
\* memory[I..=I + X] to V[0..=X] and changes no register above X, no byte and
\* not I; so registers stored by FX55 and overwritten since are restored by
\* an FX65 with the same I and X: the store-and-load programs end with
\* V[0..=X] as stored and the registers above X as overwritten.
C28_BlockCopy ==
    [][/\ (ExecutingF(85) /\ BlockFits) =>
              /\ \A a \in 0..(MEM_SIZE - 1) :
                     Load(internals'.memory, a) =
                         IF a \in internals.I..(internals.I + OpX(Fetch(internals)))
                         THEN internals.V[a - internals.I]
                         ELSE Load(internals.memory, a)
              /\ [internals' EXCEPT !.memory = internals.memory] =
                     [internals EXCEPT !.PC = internals.PC + 2]
       /\ (ExecutingF(101) /\ BlockFits) =>
              /\ \A k \in 0..(NUM_REGS - 1) :
                     internals'.V[k] =
                         IF k <= OpX(Fetch(internals))
                         THEN Load(internals.memory, internals.I + k)
                         ELSE internals.V[k]
              /\ [internals' EXCEPT !.V = internals.V] =
                     [internals EXCEPT !.PC = internals.PC + 2]
       /\ \A x \in {0, 1, 2, 15} :
              (/\ internals'.endloop
               /\ program \in {ProgStoreLoad(x, nnn) : nnn \in BlockAddresses(x)}) =>
                  \A k \in {0, 1, 2, 15} :
                     internals'.V[k] =
                         IF k > x THEN (IF k = 2 THEN 51 ELSE 0)
                         ELSE CASE k = 0 -> 17 [] k = 1 -> 34 [] k = 2 -> 51 [] k = 15 -> 255]_vars

\* C28 witness: V0..V15 were stored in the last 16 bytes of the memory,
\* V0, V1 and VF overwritten with 0, and FF65 has loaded them back
C28_Witness ==
    /\ program = ProgStoreLoad(15, MEM_SIZE - 16)
    /\ Len(Log) = 10
    /\ internals.V[0] = 17 /\ internals.V[1] = 34 /\ internals.V[15] = 255
    /\ Load(internals.memory, MEM_SIZE - 1) = 255

\* the change of SP an instruction with opcode op makes: +1 for a call, -1 for
\* a return, 0 for any other
SpChange(op) ==
    IF op \div 4096 = 2 THEN 1 ELSE IF op = 238 THEN -1 ELSE 0

\* C29 as stated: while the emulation thread has not failed, 0 <= SP <= 16; SP is 0
\* when the thread starts its loop, a completed 2NNN adds 1 to it, a
\* completed 00EE subtracts 1 and no other step of the running thread changes
\* it, so that SP is the number of 2NNN executed minus the number of 00EE
\* executed since the start.
C29_StackPointerCounts ==
    [][/\ ethread' # "panicked" => internals'.SP \in 0..STACK_SIZE
       /\ (ethread = "init" /\ ethread' # "init") => internals'.SP = 0
       /\ (ExecutesInstruction /\ ethread' = "render_gate") =>
              internals'.SP = internals.SP + SpChange(Fetch(internals))
       /\ (Running /\ ~(ExecutesInstruction /\ ethread' = "render_gate")) =>
              internals'.SP = internals.SP]_vars

\* C30: in the running thread, once endloop is set it stays set; every
\* instruction executed from then on is the jump to its own address, and no
\* step changes PC, V, I, SP, the stack, the memory, the framebuffer, the
\* wait register or the trace log: of the machine only delay_timer and
\* sound_timer can still change.
C30_EndloopIsFinal ==
    [][(Running /\ internals.endloop) =>
          /\ internals'.endloop
          /\ [internals' EXCEPT !.delay_timer = 0, !.sound_timer = 0] =
                 [internals EXCEPT !.delay_timer = 0, !.sound_timer = 0]
          /\ gbuf' = gbuf
          /\ wfi_register' = wfi_register
          /\ Log' = Log
          /\ ExecutesInstruction =>
                 /\ FetchOk(internals)
                 /\ Fetch(internals) = Opc(1, 0, 0, 0) + internals.PC
                 /\ ethread' = "render_gate"]_vars

\* C30 witness: the timer program is in its final self-jump; the sound timer,
\* set to 2 one instruction before the jump, has run down to 0 since endloop
\* was set, and the log still has its four lines
C30_Witness ==
    /\ program = ProgTimers
    /\ internals.endloop
    /\ ethread = "render_gate"
    /\ internals.delay_timer = 0 /\ internals.sound_timer = 0
    /\ Len(Log) = 4


\* the step is the click on "Stop Emulator": update leaves the button with
\* EmulatorInterface::kill
StopStep == upc = "button" /\ ~should_start /\ upc' \in {"kill_join", "crashed"}

\* the emulation thread of the handle has left its loop through a host quit
\* or escape event: no stop signal was sent to it and it did not panic
ExitedOnItsOwn == emulator_handle /\ ethread = "finished" /\ kill_channel = 0

\* C31 as stated: when the emulation thread exits on its own after the
\* observer has read the status as running and before stop() sends its
\* signal, stop() does not fail: it goes on to join the finished thread and
\* the observer keeps running.
C31_StopAfterOwnExit ==
    [][(StopStep /\ ExitedOnItsOwn) =>
          /\ upc' = "kill_join"
          /\ ui_panic' = "none"]_vars


\* the steps of the emulation thread
EmuSteps ==
    \/ EmuNewClear \/ EmuNewReset \/ EmuInit \/ EmuKillPoll \/ EmuQuit
    \/ \E keycode \in KeyCodes : EmuKeyDown(keycode) \/ EmuKeyUp(keycode)
    \/ EmuTick \/ EmuOpcodeSkip \/ EmuOpcodeLock
    \/ EmuRenderSkip \/ EmuExecuteRender

\* the steps of the observer
ObsSteps ==
    \/ ObsStatus \/ ObsLabel \/ ObsNoClick \/ ObsStart \/ ObsKill \/ ObsKillJoin
    \/ ObsCheckbox \/ ObsViews \/ ObsViewsEnd

\* the emulation thread is alive and cannot take a step: it waits for the lock
EmuBlocked ==
    /\ ethread \notin {"none", "finished", "panicked", "execute"}
    /\ ~ENABLED EmuSteps

\* the observer cannot take a step: it waits for the lock or in join()
ObsBlocked == ~ENABLED ObsSteps

\* C32: while the process is alive no state is a deadlock of the two threads
\* (the emulation thread and the observer both blocked); the observer does not
\* hold the lock while it is blocked in join() and can always go on to release
\* it; the emulation thread holds the lock only inside an instruction tick,
\* where it can always go on to the end of the tick, which releases it.
C32_NoDeadlock ==
    ProcessAlive =>
        /\ ~(EmuBlocked /\ ObsBlocked)
        /\ upc = "kill_join" => lock # "ui"
        /\ lock = "ui" => ENABLED ObsViewsEnd
        /\ lock = "emu" => ethread = "execute"
        /\ ethread = "execute" => lock = "emu"

\* C32 witness: the observer is blocked in join() after its stop signal while
\* the emulation thread is inside an instruction tick and holds the lock
C32_Witness ==
    /\ upc = "kill_join"
    /\ kill_channel = 1
    /\ ethread = "execute"
    /\ lock = "emu"


\* an emulation thread is alive
ThreadAlive == ethread \notin {"none", "finished", "panicked"}

\* this step spawns an emulation thread
Spawns == ethread' = "new_clear" /\ ethread # "new_clear"

\* C33: at most one emulation thread is alive at any time: a thread is
\* spawned only by the observer's start, only when no emulation thread is
\* alive, and when a thread was started before, only after it has ended and
\* was joined without error; an alive thread is the one of the observer's
\* handle (or the one its stop() is joining), and start never finds the
\* thread of the handle running.
C33_OneThreadAlive ==
    [][/\ Spawns =>
              /\ upc = "button" /\ should_start
              /\ ~ThreadAlive
              /\ emulator_handle => (ethread = "finished" /\ panic_msg = "none")
              /\ emulator_handle'
       /\ ThreadAlive' => (emulator_handle' \/ upc' = "kill_join")
       /\ ui_panic' # START_RUNNING]_vars

\* C33 witness: a thread that left its loop on a quit event was joined by
\* start and a second thread has been spawned, which has not yet cleared the
\* log of the first
C33_Witness ==
    /\ ethread = "new_clear"
    /\ emulator_handle
    /\ Len(inter_thread.executed_instructions) >= 1


\* the running machine is as it was started: nothing is published, the
\* published copy is the initial state, and the machine is the loaded program
\* with no instruction executed
Fresh ==
    /\ Running
    /\ inter_thread.executed_instructions = <<>>
    /\ inter_thread.internal_state = C8_default
    /\ internals = LoadedMachine(program)
    /\ gbuf = ZeroArray
    /\ wfi_register = -1

\* this step belongs to the start of a machine: the spawn by the observer,
\* Emulator::new or the locals of Emulator::start
StartStep ==
    \/ Spawns
    \/ ethread \in {"new_clear", "new_reset", "init"} /\ ethread' # ethread

\* C34: when Emulator::new is done the published log is empty and the
\* published copy is the initial state (PC = 0x200, SP = 0, registers and
\* timers 0); no step of the start changes the pause flag; the machine enters
\* its loop with nothing executed; and as long as the pause flag is set a
\* machine that has executed nothing executes nothing and publishes nothing,
\* whatever the thread does (instruction ticks, 60 Hz ticks, key events).
C34_StartKeepsPause ==
    [][/\ (ethread = "new_reset" /\ ethread' = "init") =>
              /\ inter_thread'.executed_instructions = <<>>
              /\ inter_thread'.internal_state = C8_default
              /\ inter_thread'.internal_state.PC = 512
              /\ inter_thread'.internal_state.SP = 0
       /\ StartStep => inter_thread'.freeze = inter_thread.freeze
       /\ (ethread = "init" /\ ethread' # "init") => Fresh'
       /\ (Fresh /\ inter_thread.freeze /\ Running') => Fresh']_vars

\* C34 witness: the pause flag is set and the started machine has executed
\* nothing; an instruction tick has found the flag set and returned, and a
\* 60 Hz tick has fired after it: nothing is executed or published
C34_Witness ==
    /\ Fresh
    /\ inter_thread.freeze /\ frozen
    /\ ethread = "kill_poll"
    /\ since_opcode = 0 /\ since_render = 0

=============================================================================
